---- MODULE Spec2Model ----
(***************************************************************************)
(* Model of tanuki-bot's core: the task store (plan.py), the plan          *)
(* reconciler (plan.py), the append-only variant (task_add.py) and the     *)
(* runner state machine (runner.py).                                       *)
(*                                                                         *)
(* Text is a sequence of one-character strings, so that str.strip, lower,  *)
(* the whitespace collapse of _norm, err[:5000] and substring matching are *)
(* computed, not assumed.  A JSON scalar is a tagged record                *)
(* [k, n, s]: k is the JSON type, n the integer, s the text.               *)
(***************************************************************************)
EXTENDS Integers, Sequences, FiniteSets, TLC

\* ------------------------------------------------------------------------
\* Text
\* ------------------------------------------------------------------------

Upper == << "A","B","C","D","E","F","G","H","I","J","K","L","M",
            "N","O","P","Q","R","S","T","U","V","W","X","Y","Z" >>

LowerLetters == << "a","b","c","d","e","f","g","h","i","j","k","l","m",
                   "n","o","p","q","r","s","t","u","v","w","x","y","z" >>

Digits == << "0","1","2","3","4","5","6","7","8","9" >>

\* the characters \s matches and str.strip removes
Whitespace == { " ", "\t", "\n" }

\* the lower-case letter of each upper-case letter
LowerOf == [c \in { Upper[i] : i \in 1..Len(Upper) } |->
             LowerLetters[CHOOSE i \in 1..Len(Upper) : Upper[i] = c]]

UpperSet == { Upper[i] : i \in 1..Len(Upper) }

\* str.lower on one character
LowerChar(c) == IF c \in UpperSet THEN LowerOf[c] ELSE c

\* the sequence f[1], ..., f[n], computed once
Listed(f, n) == SubSeq(f, 1, n)

\* str.lower
Lower(s) == Listed([i \in 1..Len(s) |-> LowerChar(s[i])], Len(s))

RECURSIVE LStrip(_)
LStrip(s) ==
  IF s = << >> THEN s
  ELSE IF Head(s) \in Whitespace THEN LStrip(Tail(s)) ELSE s

RECURSIVE RStrip(_)
RStrip(s) ==
  IF s = << >> THEN s
  ELSE IF s[Len(s)] \in Whitespace THEN RStrip(SubSeq(s, 1, Len(s) - 1)) ELSE s

\* str.strip()
Strip(s) == RStrip(LStrip(s))

\* re.sub(r"\s+", " ", s)
RECURSIVE CollapseWs(_)
CollapseWs(s) ==
  IF s = << >> THEN s
  ELSE IF Head(s) \in Whitespace THEN << " " >> \o CollapseWs(LStrip(s))
  ELSE << Head(s) >> \o CollapseWs(Tail(s))

\* plan.py _norm: strip, lower, collapse runs of whitespace
_norm(s) == CollapseWs(Lower(Strip(s)))

\* m in r (substring test)
Contains(r, m) ==
  \E i \in 1..(Len(r) - Len(m) + 1) : \A j \in 1..Len(m) : r[i + j - 1] = m[j]

IsDigit(c) == \E i \in 1..Len(Digits) : Digits[i] = c

DigitVal(c) == (CHOOSE i \in 1..Len(Digits) : Digits[i] = c) - 1

\* int() of a run of decimal digits
RECURSIVE ParseDigits(_, _)
ParseDigits(s, acc) ==
  IF s = << >> THEN acc ELSE ParseDigits(Tail(s), 10 * acc + DigitVal(Head(s)))

\* the maximal run of digits at the head of s
RECURSIVE DigitPrefix(_)
DigitPrefix(s) ==
  IF s = << >> \/ ~IsDigit(Head(s)) THEN << >>
  ELSE << Head(s) >> \o DigitPrefix(Tail(s))

\* re.search(r"(\d+)", s): the first run of digits, << >> when there is none
RECURSIVE FirstDigits(_)
FirstDigits(s) ==
  IF s = << >> THEN << >>
  ELSE IF IsDigit(Head(s)) THEN DigitPrefix(s) ELSE FirstDigits(Tail(s))

\* str(n) of a natural number
RECURSIVE NatToStr(_)
NatToStr(n) ==
  IF n < 10 THEN << Digits[n + 1] >>
  ELSE NatToStr(n \div 10) \o << Digits[(n % 10) + 1] >>

\* str(n) of an integer
IntToStr(n) == IF n < 0 THEN << "-" >> \o NatToStr(0 - n) ELSE NatToStr(n)

\* ------------------------------------------------------------------------
\* Text literals of the source
\* ------------------------------------------------------------------------

TODO == << "t","o","d","o" >>
DOING == << "d","o","i","n","g" >>
REVIEW == << "r","e","v","i","e","w" >>
BLOCKED == << "b","l","o","c","k","e","d" >>
DONE == << "d","o","n","e" >>
SKIPPED == << "s","k","i","p","p","e","d" >>
IN_PROGRESS == << "i","n"," ","p","r","o","g","r","e","s","s" >>
IN_PROGRESS_DASH == << "i","n","-","p","r","o","g","r","e","s","s" >>
COMPLETE == << "c","o","m","p","l","e","t","e" >>
COMPLETED == << "c","o","m","p","l","e","t","e","d" >>
PENDING == << "p","e","n","d","i","n","g" >>
P1 == << "P","1" >>
P2 == << "P","2" >>
P3 == << "P","3" >>
NONE_TEXT == << "N","o","n","e" >>
ZERO_TEXT == << "0" >>
EMPTY == << >>

\* the six statuses of the data model
Statuses == { TODO, DOING, REVIEW, BLOCKED, DONE, SKIPPED }

Priorities == { P1, P2, P3 }

\* ------------------------------------------------------------------------
\* JSON scalars
\* ------------------------------------------------------------------------

JAbsent == [k |-> "absent", n |-> 0, s |-> EMPTY]
JNull == [k |-> "null", n |-> 0, s |-> EMPTY]
JInt(i) == [k |-> "int", n |-> i, s |-> EMPTY]
JStr(t) == [k |-> "str", n |-> 0, s |-> t]

\* Python truthiness of a JSON scalar; an absent key reads as None
Truthy(v) ==
  CASE v.k = "int" -> v.n # 0
    [] v.k = "str" -> v.s # EMPTY
    [] OTHER -> FALSE

\* str(v)
PyStr(v) ==
  CASE v.k = "int" -> IntToStr(v.n)
    [] v.k = "str" -> v.s
    [] OTHER -> NONE_TEXT

\* d.get(key, default): the default only when the key is absent
Get(v, default) == IF v.k = "absent" THEN default ELSE v

\* d.get(key): None when the key is absent
GetNone(v) == IF v.k = "absent" THEN JNull ELSE v

\* JSON arrays of strings, or some other value in that place
TAbsent == [k |-> "absent", l |-> << >>]
TNull == [k |-> "null", l |-> << >>]
TList(l) == [k |-> "list", l |-> l]

\* ------------------------------------------------------------------------
\* Task store (plan.py)
\* ------------------------------------------------------------------------

\* plan.py _now_iso: the clock reading as text
_now_iso(clock) == IntToStr(clock)

\* plan.py _safe_list: a list gives its items as text, anything else []
_safe_list(v) == IF v.k = "list" THEN v.l ELSE << >>

\* plan.py _clamp_priority (the tests after the third can never succeed)
_clamp_priority(p) ==
  LET s == _norm(p) IN
  IF s \in { << "p","0" >>, << "p","1" >> } THEN P1
  ELSE IF s \in { << "p","2" >> } THEN P2
  ELSE IF s \in { << "p","3" >> } THEN P3
  ELSE P2

\* plan.py _clamp_status
_clamp_status(s0) ==
  LET s == _norm(s0) IN
  IF s \in { TODO, DOING, BLOCKED, DONE, SKIPPED } THEN s
  ELSE IF s \in { IN_PROGRESS, IN_PROGRESS_DASH } THEN DOING
  ELSE IF s \in { COMPLETE, COMPLETED } THEN DONE
  ELSE IF s \in { PENDING } THEN TODO
  ELSE TODO

\* plan.py class Task
Task(id, title, description, status, priority, tags, created_at, updated_at, started_at, done_at, blocked_reason) ==
  [ id |-> id, title |-> title, description |-> description,
    status |-> status, priority |-> priority, tags |-> tags,
    created_at |-> created_at, updated_at |-> updated_at,
    started_at |-> started_at, done_at |-> done_at,
    blocked_reason |-> blocked_reason ]

\* plan.py Task.to_dict: the JSON object written for a task
to_dict(t) ==
  [ isdict |-> TRUE,
    id |-> JInt(t.id), title |-> JStr(t.title),
    description |-> JStr(t.description), status |-> JStr(t.status),
    priority |-> JStr(t.priority), tags |-> TList(t.tags),
    created_at |-> JStr(t.created_at), updated_at |-> JStr(t.updated_at),
    started_at |-> t.started_at, done_at |-> t.done_at,
    blocked_reason |-> t.blocked_reason ]

\* a JSON array element that is not an object
NotADict ==
  [ isdict |-> FALSE,
    id |-> JAbsent, title |-> JAbsent, description |-> JAbsent,
    status |-> JAbsent, priority |-> JAbsent, tags |-> TAbsent,
    created_at |-> JAbsent, updated_at |-> JAbsent, started_at |-> JAbsent,
    done_at |-> JAbsent, blocked_reason |-> JAbsent ]

\* plan.py _task_from_any, lines 136-142: id as int, or the first run of
\* digits of its text, or 0
IdFromAny(raw_id) ==
  IF raw_id.k = "int" THEN raw_id.n
  ELSE LET txt == IF Truthy(raw_id) THEN PyStr(raw_id) ELSE ZERO_TEXT
           m == FirstDigits(txt)
       IN IF m # << >> THEN ParseDigits(m, 0) ELSE 0

\* plan.py _task_from_any
_task_from_any(d, clock) ==
  LET created_at ==
        IF Truthy(GetNone(d.created_at)) THEN PyStr(d.created_at)
        ELSE _now_iso(clock)
      updated_at ==
        IF Truthy(GetNone(d.updated_at)) THEN PyStr(d.updated_at)
        ELSE created_at
      started_at == GetNone(d.started_at)
      done_at == GetNone(d.done_at)
      blocked_reason == GetNone(d.blocked_reason)
  IN Task(IdFromAny(d.id),
          Strip(PyStr(Get(d.title, JStr(EMPTY)))),
          Strip(PyStr(Get(d.description, JStr(EMPTY)))),
          _clamp_status(PyStr(Get(d.status, JStr(TODO)))),
          _clamp_priority(PyStr(Get(d.priority, JStr(P2)))),
          _safe_list(d.tags),
          created_at,
          updated_at,
          IF Truthy(started_at) THEN started_at ELSE JNull,
          IF Truthy(done_at) THEN done_at ELSE JNull,
          IF Truthy(blocked_reason) THEN blocked_reason ELSE JNull)

\* max((t.id for t in tasks), default=0)
MaxId(tasks) ==
  IF tasks = << >> THEN 0
  ELSE CHOOSE m \in { tasks[i].id : i \in 1..Len(tasks) } :
         \A i \in 1..Len(tasks) : tasks[i].id <= m

\* the backlog file: absent, not JSON, JSON that is no object, or an object
NoFile ==
  [ kind |-> "missing", version |-> JAbsent, next_id |-> JAbsent,
    tasks |-> [k |-> "absent", items |-> << >>] ]

\* _load_tasks_payload without the defensive recomputation of lines 193-194:
\* next_id is taken from the document as it is
LoadTrustingNextId(doc, clock) ==
  LET IsDict(x) == x.isdict
      tasks_raw == IF doc.tasks.k = "list" THEN doc.tasks.items ELSE << >>
      dicts == SelectSeq(tasks_raw, IsDict)
      tasks == Listed([i \in 1..Len(dicts) |-> _task_from_any(dicts[i], clock)],
                      Len(dicts))
      max_id == MaxId(tasks)
  IN [ ok |-> doc.kind \in { "missing", "dict" },
       version |-> IF doc.version.k = "int" THEN doc.version.n ELSE 1,
       next_id |-> IF doc.next_id.k = "int" THEN doc.next_id.n ELSE max_id + 1,
       tasks |-> tasks ]

\* plan.py _load_json + _load_tasks_payload.  ok is FALSE when json.loads or
\* payload.get raises; a missing file reads as {"tasks": []}
_load_tasks_payload(doc, clock) ==
  LET IsDict(x) == x.isdict
      tasks_raw == IF doc.tasks.k = "list" THEN doc.tasks.items ELSE << >>
      dicts == SelectSeq(tasks_raw, IsDict)
      tasks == Listed([i \in 1..Len(dicts) |-> _task_from_any(dicts[i], clock)],
                      Len(dicts))
      max_id == MaxId(tasks)
      next_id0 == IF doc.next_id.k = "int" THEN doc.next_id.n ELSE max_id + 1
  IN [ ok |-> doc.kind \in { "missing", "dict" },
       version |-> IF doc.version.k = "int" THEN doc.version.n ELSE 1,
       next_id |-> IF next_id0 <= max_id THEN max_id + 1 ELSE next_id0,
       tasks |-> tasks ]

\* plan.py _save_json + _save_tasks_payload: the whole document is rewritten
_save_tasks_payload(version, next_id, tasks) ==
  [ kind |-> "dict", version |-> JInt(version), next_id |-> JInt(next_id),
    tasks |-> [k |-> "list",
               items |-> Listed([i \in 1..Len(tasks) |-> to_dict(tasks[i])],
                                Len(tasks))] ]

\* plan.py _find_match: index of the first task whose normalized title equals
\* the candidate's, 0 when there is none
_find_match(existing, cand_title) ==
  LET ct == _norm(cand_title)
      hits == { i \in 1..Len(existing) : _norm(existing[i].title) = ct }
  IN IF hits = {} THEN 0 ELSE CHOOSE i \in hits : \A j \in hits : i <= j

\* ------------------------------------------------------------------------
\* Plan reconciler (plan.py plan_from_brief)
\* ------------------------------------------------------------------------

FIX_PLAN_OUTPUT == << "F","i","x"," ","p","l","a","n"," ","o","u","t","p","u","t" >>
UNTITLED_TASK == << "U","n","t","i","t","l","e","d"," ","t","a","s","k" >>
BLOCKED_DEFAULT == << "B","l","o","c","k","e","d" >>
INVALID_TASKS_JSON == << "I","n","v","a","l","i","d"," ","t","a","s","k","s"," ","J","S","O","N" >>
PLANNING == << "p","l","a","n","n","i","n","g" >>

\* x or y on texts
OrText(x, y) == IF x # EMPTY THEN x ELSE y

\* the provider's tasks block: unparsable text, a JSON object whose "tasks" is
\* a list, or a JSON object whose "tasks" is something else
NoTasksBlock == [k |-> "bad", items |-> << >>]

\* plan.py lines 406-413: the dict entries of the parsed list, [] otherwise
generated_tasks(resp) ==
  LET IsDict(x) == x.isdict IN
  IF resp.k = "list" THEN SelectSeq(resp.items, IsDict) ELSE << >>

\* plan.py lines 508-517: the candidate's id as int, or None (found = FALSE)
CandId(cand) ==
  LET cand_id == GetNone(cand.id) IN
  IF cand_id.k = "int" THEN [found |-> TRUE, n |-> cand_id.n]
  ELSE IF cand_id.k = "null" THEN [found |-> FALSE, n |-> 0]
  ELSE LET m == FirstDigits(PyStr(cand_id)) IN
       IF m # << >> THEN [found |-> TRUE, n |-> ParseDigits(m, 0)]
       ELSE [found |-> FALSE, n |-> 0]

\* plan.py line 449: by_id = {t.id: t for t in existing_tasks if t.id > 0};
\* a later task with the same id replaces an earlier one
InById(existing, tid) ==
  tid > 0 /\ \E i \in 1..Len(existing) : existing[i].id = tid

ById(existing, tid) ==
  LET hits == { i \in 1..Len(existing) : existing[i].id = tid } IN
  existing[CHOOSE i \in hits : \A j \in hits : j <= i]

\* plan.py _apply_update (lines 454-502); now is the text of line 452
_apply_update(old, upd, now) ==
  LET title == OrText(Strip(PyStr(Get(upd.title, JStr(old.title)))), old.title)
      description ==
        OrText(Strip(PyStr(Get(upd.description, JStr(old.description)))),
               old.description)
      priority == _clamp_priority(PyStr(Get(upd.priority, JStr(old.priority))))
      tags == IF _safe_list(upd.tags) # << >> THEN _safe_list(upd.tags) ELSE old.tags
      status_in == Get(upd.status, JStr(old.status))
      status_new == _clamp_status(PyStr(status_in))
      status_final == IF status_new # old.status THEN status_new ELSE old.status
      changed == old.status # status_final
      started_at ==
        IF changed /\ status_final \in { DOING, DONE } /\ ~Truthy(old.started_at)
          THEN JStr(now) ELSE old.started_at
      done_at == IF changed /\ status_final = DONE THEN JStr(now) ELSE old.done_at
      upd_reason == GetNone(upd.blocked_reason)
      reason_text ==
        IF Truthy(upd_reason) THEN PyStr(upd_reason)
        ELSE IF Truthy(old.blocked_reason) THEN PyStr(old.blocked_reason)
        ELSE EMPTY
      blocked_reason ==
        IF changed /\ status_final \in { DONE, TODO } THEN JNull
        ELSE IF changed /\ status_final = BLOCKED
          THEN JStr(OrText(Strip(reason_text), BLOCKED_DEFAULT))
        ELSE old.blocked_reason
  IN Task(old.id, title, description, status_final, priority, tags,
          old.created_at, now, started_at, done_at, blocked_reason)

\* plan.py lines 538-552: the new task made from a candidate
NewTaskFromCand(cand, next_id, now) ==
  LET reason ==
        Strip(IF Truthy(GetNone(cand.blocked_reason))
                THEN PyStr(cand.blocked_reason) ELSE EMPTY)
  IN Task(next_id,
          OrText(Strip(PyStr(Get(cand.title, JStr(EMPTY)))), UNTITLED_TASK),
          Strip(PyStr(Get(cand.description, JStr(EMPTY)))),
          _clamp_status(PyStr(Get(cand.status, JStr(TODO)))),
          _clamp_priority(PyStr(Get(cand.priority, JStr(P2)))),
          _safe_list(cand.tags),
          now, now, JNull, JNull,
          IF reason # EMPTY THEN JStr(reason) ELSE JNull)

\* plan.py lines 507-556: one turn of the loop over generated_tasks.
\* st = [merged, seen_ids, seen_titles, next_id]
MergeCand(existing, cand, st, now) ==
  LET tid == CandId(cand)
      title == Strip(PyStr(Get(cand.title, JStr(EMPTY))))
      m == IF title # EMPTY THEN _find_match(existing, title) ELSE 0
  IN IF tid.found /\ InById(existing, tid.n)
       THEN LET updated == _apply_update(ById(existing, tid.n), cand, now) IN
            [ merged |-> Append(st.merged, updated),
              seen_ids |-> st.seen_ids \cup { tid.n },
              seen_titles |-> st.seen_titles \cup { _norm(updated.title) },
              next_id |-> st.next_id ]
     ELSE IF m # 0 /\ InById(existing, existing[m].id)
       THEN LET updated == _apply_update(existing[m], cand, now) IN
            [ merged |-> Append(st.merged, updated),
              seen_ids |-> st.seen_ids \cup { existing[m].id },
              seen_titles |-> st.seen_titles \cup { _norm(updated.title) },
              next_id |-> st.next_id ]
     ELSE LET nt == NewTaskFromCand(cand, st.next_id, now) IN
            [ merged |-> Append(st.merged, nt),
              seen_ids |-> st.seen_ids \cup { nt.id },
              seen_titles |-> st.seen_titles \cup { _norm(nt.title) },
              next_id |-> st.next_id + 1 ]

RECURSIVE MergeLoop(_, _, _, _)
MergeLoop(existing, cands, st, now) ==
  IF cands = << >> THEN st
  ELSE MergeLoop(existing, Tail(cands), MergeCand(existing, Head(cands), st, now), now)

\* plan.py lines 560-565: existing tasks the proposal did not mention
Leftover(existing, st) ==
  LET Keep(t) == t.id \notin st.seen_ids /\ _norm(t.title) \notin st.seen_titles
  IN SelectSeq(existing, Keep)

\* plan.py lines 416-437: the synthetic task of the parse-failure path
FixPlanTask(next_id, now) ==
  Task(next_id, FIX_PLAN_OUTPUT, EMPTY, BLOCKED, P1, << PLANNING >>,
       now, now, JNull, JNull, JStr(INVALID_TASKS_JSON))

\* plan.py plan_from_brief, lines 281-284 and 405-572: the backlog it saves,
\* given the loaded payload, the provider's tasks block and the clock
plan_from_brief(payload, resp, clock) ==
  LET existing == payload.tasks
      gen == generated_tasks(resp)
      now == _now_iso(clock)
  IN IF gen = << >>
       THEN IF _find_match(existing, FIX_PLAN_OUTPUT) = 0
              THEN [ version |-> payload.version,
                     next_id |-> payload.next_id + 1,
                     tasks |-> Append(existing, FixPlanTask(payload.next_id, now)) ]
              ELSE [ version |-> payload.version,
                     next_id |-> payload.next_id,
                     tasks |-> existing ]
     ELSE LET st == MergeLoop(existing, gen,
                              [ merged |-> << >>, seen_ids |-> {},
                                seen_titles |-> {}, next_id |-> payload.next_id ],
                              now)
          IN [ version |-> payload.version,
               next_id |-> st.next_id,
               tasks |-> st.merged \o Leftover(existing, st) ]

\* ------------------------------------------------------------------------
\* Append-only variant (task_add.py add_tasks_from_brief)
\* ------------------------------------------------------------------------

\* task_add.py lines 120-142: the loop over the generated candidates.
\* st = [new_tasks, existing_titles, next_id]
RECURSIVE AddLoop(_, _, _)
AddLoop(cands, st, now) ==
  IF cands = << >> THEN st
  ELSE LET cand == Head(cands)
           title == OrText(Strip(PyStr(Get(cand.title, JStr(EMPTY)))), UNTITLED_TASK)
           nt == _norm(title)
           t == Task(st.next_id, title,
                     Strip(PyStr(Get(cand.description, JStr(EMPTY)))),
                     TODO,
                     _clamp_priority(PyStr(Get(cand.priority, JStr(P2)))),
                     _safe_list(cand.tags),
                     now, now, JNull, JNull, JNull)
       IN IF nt \in st.existing_titles
            THEN AddLoop(Tail(cands), st, now)
            ELSE AddLoop(Tail(cands),
                         [ new_tasks |-> Append(st.new_tasks, t),
                           existing_titles |-> st.existing_titles \cup { nt },
                           next_id |-> st.next_id + 1 ],
                         now)

\* task_add.py add_tasks_from_brief, lines 46-49 and 105-150.  raised: the
\* RuntimeError of line 115; saved: whether line 149 wrote the backlog
add_tasks_from_brief(payload, resp, clock) ==
  LET existing == payload.tasks
      generated == generated_tasks(resp)
      st == AddLoop(generated,
                    [ new_tasks |-> << >>,
                      existing_titles |-> { _norm(existing[i].title) : i \in 1..Len(existing) },
                      next_id |-> payload.next_id ],
                    _now_iso(clock))
  IN IF generated = << >>
       THEN [ raised |-> TRUE, saved |-> FALSE, version |-> payload.version,
              next_id |-> payload.next_id, tasks |-> existing ]
     ELSE IF st.new_tasks = << >>
       THEN [ raised |-> FALSE, saved |-> FALSE, version |-> payload.version,
              next_id |-> payload.next_id, tasks |-> existing ]
     ELSE [ raised |-> FALSE, saved |-> TRUE, version |-> payload.version,
            next_id |-> st.next_id, tasks |-> existing \o st.new_tasks ]

\* ------------------------------------------------------------------------
\* Runner (runner.py)
\* ------------------------------------------------------------------------

\* runner.py _select_next_task, line 279: prio_rank.get(t.priority, 9)
prio_rank(p) ==
  IF p = P1 THEN 1 ELSE IF p = P2 THEN 2 ELSE IF p = P3 THEN 3 ELSE 9

\* (a1, a2) < (b1, b2) as Python compares tuples
KeyLess(a1, a2, b1, b2) == a1 < b1 \/ (a1 = b1 /\ a2 < b2)

\* runner.py _select_next_task: index of the task the stable sort by
\* (prio_rank, id) puts first among the todo tasks, 0 when there is none
_select_next_task(tasks) ==
  LET todo == { i \in 1..Len(tasks) : tasks[i].status = TODO }
      Before(i, j) ==
        \/ KeyLess(prio_rank(tasks[i].priority), tasks[i].id,
                   prio_rank(tasks[j].priority), tasks[j].id)
        \/ /\ prio_rank(tasks[i].priority) = prio_rank(tasks[j].priority)
           /\ tasks[i].id = tasks[j].id
           /\ i <= j
  IN IF todo = {} THEN 0 ELSE CHOOSE i \in todo : \A j \in todo : Before(i, j)

\* runner.py _update_task
_update_task(tasks, updated) ==
  Listed([i \in 1..Len(tasks) |->
            IF tasks[i].id = updated.id THEN updated ELSE tasks[i]], Len(tasks))

\* runner.py _should_unblock, lines 405-425
transient_markers ==
  { << "n","o","t"," ","a"," ","g","i","t"," ","r","e","p","o","s","i","t","o","r","y" >>,
    << "n","o"," ","s","u","c","h"," ","f","i","l","e"," ","o","r"," ","d","i","r","e","c","t","o","r","y",":"," ",".","g","i","t" >>,
    << "r","u","n","n","e","r"," ","i","s"," ","w","i","r","e","d" >>,
    << "a","p","p","l","y","_","t","a","s","k"," ","i","s"," ","n","o","t"," ","i","m","p","l","e","m","e","n","t","e","d" >>,
    << "c","a","n","n","o","t"," ","i","m","p","o","r","t"," ","t","a","n","u","k","i","_","b","o","t",".","c","o","r","e",".","l","l","m",".","c","h","a","t" >>,
    << "c","a","n","n","o","t"," ","i","m","p","o","r","t"," ","t","a","n","u","k","i","_","b","o","t",".","c","o","r","e",".","l","l","m" >>,
    << "m","i","s","s","i","n","g"," ","o","p","e","n","a","i"," ","a","p","i"," ","k","e","y" >>,
    << "o","p","e","n","a","i"," ","a","u","t","h","e","n","t","i","c","a","t","i","o","n"," ","f","a","i","l","e","d" >>,
    << "q","u","o","t","a" >>,
    << "b","i","l","l","i","n","g" >>,
    << "i","n","s","u","f","f","i","c","i","e","n","t","_","q","u","o","t","a" >>,
    << "4","2","9" >>,
    << "d","i","d"," ","n","o","t"," ","r","e","t","u","r","n"," ","a"," ","r","e","c","o","g","n","i","z","a","b","l","e"," ","u","n","i","f","i","e","d"," ","d","i","f","f" >>,
    << "c","o","r","r","u","p","t"," ","p","a","t","c","h" >>,
    << "g","i","t"," ","a","p","p","l","y"," ","-","-","c","h","e","c","k"," ","f","a","i","l","e","d" >>,
    << "g","i","t"," ","a","p","p","l","y"," ","f","a","i","l","e","d" >>,
    << "p","a","t","h","s","p","e","c" >>,
    << "n","o"," ","c","h","a","n","g","e","s"," ","t","o"," ","c","o","m","m","i","t" >>,
    << "t","a","s","k"," ","p","r","o","d","u","c","e","d"," ","n","o"," ","f","i","l","e"," ","c","h","a","n","g","e","s" >> }

LLM_CHAT == << "l","l","m",".","c","h","a","t" >>

\* _should_unblock that matches the markers against the reason as written
ShouldUnblockExactCase(reason) ==
  /\ Truthy(reason)
  /\ \E m \in transient_markers : Contains(PyStr(reason), m)

\* runner.py _should_unblock; reason is the task's blocked_reason
_should_unblock(reason) ==
  /\ Truthy(reason)
  /\ LET r == Lower(PyStr(reason)) IN
       \E m \in transient_markers : Contains(r, m)

\* a classifier pass that gives a task one try: it resets no task that has
\* been started before
AutoUnblockNeverStarted(tasks, can_llm, now) ==
  Listed([i \in 1..Len(tasks) |->
     LET t == tasks[i] IN
     IF t.status = BLOCKED /\ _should_unblock(t.blocked_reason)
                           /\ ~Truthy(t.started_at)
       THEN IF Contains(Lower(PyStr(t.blocked_reason)), LLM_CHAT) /\ ~can_llm
              THEN t
              ELSE Task(t.id, t.title, t.description, TODO, t.priority, t.tags,
                        t.created_at, now, t.started_at, t.done_at, JNull)
       ELSE t], Len(tasks))

\* runner.py _auto_unblock_tasks: the tasks after the classifier pass
_auto_unblock_tasks(tasks, can_llm, now) ==
  Listed([i \in 1..Len(tasks) |->
     LET t == tasks[i] IN
     IF t.status = BLOCKED /\ _should_unblock(t.blocked_reason)
       THEN IF Contains(Lower(PyStr(t.blocked_reason)), LLM_CHAT) /\ ~can_llm
              THEN t
              ELSE Task(t.id, t.title, t.description, TODO, t.priority, t.tags,
                        t.created_at, now, t.started_at, t.done_at, JNull)
       ELSE t], Len(tasks))

\* runner.py _has_blocked
_has_blocked(tasks) == \E i \in 1..Len(tasks) : tasks[i].status = BLOCKED

\* runner.py run_once lines 643-655: the checkpoint copy of the selected task
TaskDoing(t, now) ==
  Task(t.id, t.title, t.description, DOING, t.priority, t.tags, t.created_at,
       now, IF Truthy(t.started_at) THEN t.started_at ELSE JStr(now),
       t.done_at, JNull)

\* a final copy that is stamped with done_at whatever the final status
TaskFinalStamped(t, effective_create_pr, now_iso) ==
  LET final_status == IF effective_create_pr THEN REVIEW ELSE DONE IN
  Task(t.id, t.title, t.description, final_status, t.priority, t.tags,
       t.created_at, now_iso, t.started_at, JStr(now_iso), JNull)

\* runner.py _finalize_task_success lines 551-566: the final copy of the task
TaskFinal(t, effective_create_pr, now_iso) ==
  LET final_status == IF effective_create_pr THEN REVIEW ELSE DONE IN
  Task(t.id, t.title, t.description, final_status, t.priority, t.tags,
       t.created_at, now_iso, t.started_at,
       IF final_status = DONE THEN JStr(now_iso) ELSE JNull, JNull)

UNKNOWN_ERROR == << "u","n","k","n","o","w","n"," ","e","r","r","o","r" >>

\* runner.py line 770: the slice bound of err[:5000]
ReasonLimit == 5000

\* s[:n]
Prefix(s, n) == SubSeq(s, 1, IF Len(s) < n THEN Len(s) ELSE n)

\* TaskBlocked that stores the whole error text
TaskBlockedUncut(t, t_doing, e, now3) ==
  Task(t.id, t.title, t.description, BLOCKED, t.priority, t.tags, t.created_at,
       now3, t_doing.started_at, JNull, JStr(e))

\* runner.py run_once lines 755-771: the blocked copy of the selected task;
\* e is str(e) of the exception caught
TaskBlocked(t, t_doing, e, now3) ==
  LET err == IF e # EMPTY THEN e ELSE UNKNOWN_ERROR IN
  Task(t.id, t.title, t.description, BLOCKED, t.priority, t.tags, t.created_at,
       now3, t_doing.started_at, JNull, JStr(Prefix(err, ReasonLimit)))

\* ------------------------------------------------------------------------
\* Bounds and input pools
\* ------------------------------------------------------------------------

\* the clock reads 1..MaxClock; it advances when an operation ends, so a
\* behaviour holds at most MaxClock operations
MaxClock == 3

\* no operation allocates an id beyond MaxNextId
MaxNextId == 4

\* a provider response proposes at most MaxProposal tasks
MaxProposal == 2

\* the project configures at most MaxChecks verification commands
MaxChecks == 2

TitleA == << "a" >>
TitleB == << "b" >>
TitleC == << "c" >>
TitleBSpaced == << " ","B" >>
BOGUS == << "b","o","g","u","s" >>
QUOTA_TEXT == << "Q","u","o","t","a"," ","e","x","c","e","e","d","e","d" >>
BOOM == << "b","o","o","m" >>
T_ONE == << "t","1" >>

\* a JSON object with the keys a task proposal is read for
Cand(id, title, status, blocked_reason) ==
  [ isdict |-> TRUE, id |-> id, title |-> title, description |-> JAbsent,
    status |-> status, priority |-> JAbsent, tags |-> TAbsent,
    created_at |-> JAbsent, updated_at |-> JAbsent, started_at |-> JAbsent,
    done_at |-> JAbsent, blocked_reason |-> blocked_reason ]

\* sequences over S of length 1..n
SeqsUpTo(S, n) == UNION { [1..k -> S] : k \in 1..n }

\* the task proposals a provider returns in the runs of Spec: an update by
\* id to done, an update by id with an unknown status, the same with a new
\* title, and a blocked task under a title the backlog may or may not hold
RunCands ==
  { Cand(JInt(1), JAbsent, JStr(DONE), JAbsent),
    Cand(JInt(1), JAbsent, JStr(BOGUS), JAbsent),
    Cand(JInt(1), JStr(TitleC), JStr(BOGUS), JAbsent),
    Cand(JNull, JStr(TitleC), JStr(BLOCKED), JAbsent) }

RunResponses ==
  { NoTasksBlock } \cup { [k |-> "list", items |-> p] : p \in SeqsUpTo(RunCands, MaxProposal) }

\* str(e) of the exceptions a step of run_once may raise
ErrTexts == { EMPTY, BOOM, QUOTA_TEXT }

\* an error text that names both the chat capability and a quota
CHAT_QUOTA_TEXT ==
  << "L","L","M",".","c","h","a","t",":"," ","q","u","o","t","a" >>

\* the output of a command that fails after printing more than the runner keeps
LONG_ERR == Listed([i \in 1..(ReasonLimit + 1) |-> "x"], ReasonLimit + 1)

\* backlog files found at start: none; a legacy file without version and
\* next_id whose ids are text; a file whose next_id is stale
LegacyDoc ==
  [ kind |-> "dict", version |-> JAbsent, next_id |-> JAbsent,
    tasks |-> [k |-> "list", items |-> <<
      [ NotADict EXCEPT !.isdict = TRUE, !.id = JStr(T_ONE),
        !.title = JStr(TitleA), !.status = JStr(PENDING) ],
      NotADict >>] ]

StaleDoc ==
  [ kind |-> "dict", version |-> JInt(1), next_id |-> JInt(1),
    tasks |-> [k |-> "list", items |-> <<
      to_dict(Task(2, TitleB, EMPTY, TODO, P2, << >>, _now_iso(1), _now_iso(1),
                   JNull, JNull, JNull)),
      to_dict(Task(1, TitleA, EMPTY, TODO, P2, << >>, _now_iso(1), _now_iso(1),
                   JNull, JNull, JNull)) >>] ]

InitDocs == { NoFile, LegacyDoc, StaleDoc }

\* ------------------------------------------------------------------------
\* State
\* ------------------------------------------------------------------------

VARIABLES
  disk,     \* the backlog file tasks.json
  clock,    \* what _now_iso reads
  pc,       \* the position of the operation, "idle" between operations
  mem,      \* the locals of run_once
  outcome,  \* how the last operation ended
  op,       \* the last operation that ran
  resp,     \* the provider response of the reconciler runs under study
  hist,     \* the backlogs before and between those runs
  loop,     \* the locals of run_forever
  apply,    \* the locals of apply_task and the calls it has made
  repo,     \* what _ensure_git_initialized reads and writes of the repository
  thr       \* a command or call running beside helper threads

vars == << disk, clock, pc, mem, outcome, op, resp, hist, loop, apply, repo, thr >>

NoTask == Task(0, EMPTY, EMPTY, TODO, P2, << >>, EMPTY, EMPTY, JNull, JNull, JNull)

NoMem ==
  [ tasks |-> << >>, version |-> 0, next_id |-> 0, t |-> NoTask,
    t_doing |-> NoTask, effective_create_pr |-> FALSE, remote_ok |-> FALSE,
    checks |-> 0, err |-> EMPTY, ignore_blocked |-> FALSE, can_llm |-> FALSE,
    unblocked |-> 0, committed |-> FALSE ]

\* run_forever has not been called
NoLoop ==
  [ phase |-> "off", ran |-> 0, started |-> 0, max_tasks |-> JNull,
    poll_seconds |-> JNull, create_pr |-> FALSE, dry_run |-> FALSE, at |-> 0,
    stop |-> "", results |-> << >> ]

\* apply_task has not been called
NoApply ==
  [ raw |-> EMPTY, diff |-> EMPTY, e |-> EMPTY, attempt |-> 0, log |-> << >> ]

\* no command and no provider call is running
NoThreads == [ main |-> "off" ]

\* a repository with a .git directory, a configured identity and a commit
ReadyRepo == [ git |-> TRUE, identity |-> TRUE, head |-> TRUE ]

\* runner.py _ensure_git_initialized, every command succeeding: a directory
\* that is a repository only gets its identity; any other is initialised
\* and given an initial commit
_ensure_git_initialized(r) ==
  IF r.git THEN [r EXCEPT !.identity = TRUE] ELSE ReadyRepo

\* the repository when run_once raises before the selection: untouched, or,
\* when a command after git init failed, initialised without a commit
EarlyRaiseRepos(r) ==
  { r } \cup (IF r.git THEN { } ELSE { [r EXCEPT !.git = TRUE] })

\* the backlog an operation loads when it starts (plan.py line 281,
\* task_add.py line 46, runner.py line 583)
Loaded == _load_tasks_payload(disk, clock)

Init ==
  /\ disk \in InitDocs
  /\ clock = 1
  /\ pc = "idle"
  /\ mem = NoMem
  /\ outcome = "none"
  /\ op = "init"
  /\ resp = NoTasksBlock
  /\ hist = << >>
  /\ loop = NoLoop
  /\ apply = NoApply
  /\ repo = ReadyRepo
  /\ thr = NoThreads

\* plan.py line 572: plan_from_brief writes the merged backlog b
PlanSave(b, r) ==
  /\ b.next_id <= MaxNextId
  /\ disk' = _save_tasks_payload(b.version, b.next_id, b.tasks)
  /\ op' = IF generated_tasks(r) = << >> THEN "plan_failed" ELSE "plan"
  /\ outcome' = "ok"
  /\ mem' = NoMem
  /\ clock' = clock + 1
  /\ UNCHANGED << pc, resp, hist, loop, apply, repo, thr >>

PlanFrom(payload, responses) ==
  /\ payload.ok
  /\ \E r \in responses : PlanSave(plan_from_brief(payload, r, clock), r)

\* tanuki plan: plan_from_brief with the provider returning one of responses
Plan(responses) ==
  /\ pc = "idle"
  /\ clock <= MaxClock
  /\ PlanFrom(Loaded, responses)

\* task_add.py lines 144-150: add_tasks_from_brief returns or raises
AddSave(b) ==
  /\ b.next_id <= MaxNextId
  /\ disk' = IF b.saved
               THEN _save_tasks_payload(b.version, b.next_id, b.tasks)
               ELSE disk
  /\ op' = "add"
  /\ outcome' = IF b.raised THEN "raised" ELSE IF b.saved THEN "ok" ELSE "noop"
  /\ mem' = NoMem
  /\ clock' = clock + 1
  /\ UNCHANGED << pc, resp, hist, loop, apply, repo, thr >>

AddFrom(payload, responses) ==
  /\ payload.ok
  /\ \E r \in responses : AddSave(add_tasks_from_brief(payload, r, clock))

\* tanuki task add: add_tasks_from_brief with the provider returning one of
\* responses
Add(responses) ==
  /\ pc = "idle"
  /\ clock <= MaxClock
  /\ AddFrom(Loaded, responses)

\* run_once raises before it selects a task (lines 573-604: no active
\* project, or _ensure_git_initialized fails); nothing is written
RunRaisesEarly ==
  /\ pc = "idle"
  /\ clock <= MaxClock
  /\ op' = "run"
  /\ outcome' = "raised_early"
  /\ mem' = NoMem
  /\ clock' = clock + 1
  /\ repo' \in EarlyRaiseRepos(repo)
  /\ UNCHANGED << disk, pc, resp, hist, loop, apply, thr >>

\* run_once lines 612-657: halt test, selection, dry-run return, doing
\* checkpoint; tasks1 is the backlog after the classifier pass, m the locals
RunSelect(payload, now, tasks1, sel, dry_run, ignore_blocked, m) ==
  IF _has_blocked(tasks1) /\ ~(\E i \in 1..Len(tasks1) : tasks1[i].status = TODO)
     /\ ~ignore_blocked
    THEN /\ outcome' = "halted"
         /\ mem' = m
         /\ pc' = "idle"
         /\ clock' = clock + 1
         /\ disk' = IF m.unblocked > 0
                      THEN _save_tasks_payload(payload.version, payload.next_id, tasks1)
                      ELSE disk
  ELSE IF sel = 0
    THEN /\ outcome' = "no_todo"
         /\ mem' = m
         /\ pc' = "idle"
         /\ clock' = clock + 1
         /\ disk' = IF m.unblocked > 0
                      THEN _save_tasks_payload(payload.version, payload.next_id, tasks1)
                      ELSE disk
  ELSE IF dry_run
    THEN /\ outcome' = "dry_run"
         /\ mem' = [m EXCEPT !.t = tasks1[sel]]
         /\ pc' = "idle"
         /\ clock' = clock + 1
         /\ disk' = IF m.unblocked > 0
                      THEN _save_tasks_payload(payload.version, payload.next_id, tasks1)
                      ELSE disk
  ELSE /\ outcome' = "running"
       /\ mem' = [m EXCEPT !.t = tasks1[sel],
                           !.t_doing = TaskDoing(tasks1[sel], now),
                           !.tasks = _update_task(tasks1, TaskDoing(tasks1[sel], now))]
       /\ pc' = "clean_git"
       /\ clock' = clock
       /\ disk' = _save_tasks_payload(payload.version, payload.next_id,
                    _update_task(tasks1, TaskDoing(tasks1[sel], now)))

\* _auto_unblock_tasks, the count it returns: the tasks it reset
Unblocked(tasks, tasks1) ==
  Cardinality({ i \in 1..Len(tasks) : tasks1[i] # tasks[i] })

\* run_once lines 606-608 and 635-636: the classifier's result, and the
\* caller's flags, the remote's presence and the configured checks
RunClassified(payload, now, tasks1, can_llm) ==
  \E create_pr, dry_run, ignore_blocked, remote_ok \in BOOLEAN :
  \E n_checks \in 0..MaxChecks :
    RunSelect(payload, now, tasks1, _select_next_task(tasks1), dry_run, ignore_blocked,
              [ tasks |-> tasks1, version |-> payload.version,
                next_id |-> payload.next_id, t |-> NoTask, t_doing |-> NoTask,
                effective_create_pr |-> create_pr /\ remote_ok,
                remote_ok |-> remote_ok, checks |-> n_checks, err |-> EMPTY,
                ignore_blocked |-> ignore_blocked, can_llm |-> can_llm,
                unblocked |-> Unblocked(payload.tasks, tasks1),
                committed |-> FALSE ])

RunLoaded(payload, now) ==
  /\ payload.ok
  /\ \E can_llm \in BOOLEAN :
       RunClassified(payload, now, _auto_unblock_tasks(payload.tasks, can_llm, now),
                     can_llm)

\* run_once lines 583-657: load, _ensure_git_initialized, classifier pass,
\* halt test, selection, dry-run return, doing checkpoint
RunBegin ==
  /\ pc = "idle"
  /\ clock <= MaxClock
  /\ op' = "run"
  /\ repo' = _ensure_git_initialized(repo)
  /\ RunLoaded(Loaded, _now_iso(clock))
  /\ UNCHANGED << resp, hist, loop, apply, thr >>

\* steps that go from the applied change to the commit without running the
\* configured checks
StepOkSkippingChecks ==
  /\ pc \in { "clean_git", "checkout_base", "create_branch", "apply" }
  /\ pc' = CASE pc = "clean_git" -> "checkout_base"
             [] pc = "checkout_base" -> "create_branch"
             [] pc = "create_branch" -> "apply"
             [] pc = "apply" -> "commit"
  /\ UNCHANGED << disk, clock, mem, outcome, op, resp, hist, loop, apply, repo, thr >>

\* run_once lines 660-683: clean-tree check, base checkout, branch creation,
\* local action or apply_task, each returning normally
StepOk ==
  /\ pc \in { "clean_git", "checkout_base", "create_branch", "apply" }
  /\ pc' = CASE pc = "clean_git" -> "checkout_base"
             [] pc = "checkout_base" -> "create_branch"
             [] pc = "create_branch" -> "apply"
             [] pc = "apply" -> IF mem.checks > 0 THEN "checks" ELSE "commit"
  /\ UNCHANGED << disk, clock, mem, outcome, op, resp, hist, loop, apply, repo, thr >>

\* run_once lines 685-688: one verification command exits zero
CheckOk ==
  /\ pc = "checks"
  /\ mem' = [mem EXCEPT !.checks = mem.checks - 1]
  /\ pc' = IF mem.checks > 1 THEN "checks" ELSE "commit"
  /\ UNCHANGED << disk, clock, outcome, op, resp, hist, loop, apply, repo, thr >>

\* a commit step that goes on to the push and the PR whatever was staged
CommitStepAlwaysPushing(committed) ==
  /\ pc = "commit"
  /\ pc' = IF mem.remote_ok THEN "push"
           ELSE IF mem.effective_create_pr THEN "create_pr"
           ELSE "finalize"
  /\ mem' = [mem EXCEPT !.committed = committed]
  /\ UNCHANGED << disk, outcome, clock, op, resp, hist, loop, apply, repo, thr >>

\* run_once lines 690-717: _commit_all returns; with nothing staged the task
\* is finalized at once
CommitStep(committed) ==
  /\ pc = "commit"
  /\ IF committed
       THEN /\ pc' = IF mem.remote_ok THEN "push"
                     ELSE IF mem.effective_create_pr THEN "create_pr"
                     ELSE "finalize"
            /\ mem' = [mem EXCEPT !.committed = committed]
            /\ UNCHANGED << disk, outcome, clock >>
       ELSE /\ disk' = _save_tasks_payload(mem.version, mem.next_id,
                         _update_task(mem.tasks,
                           TaskFinal(mem.t_doing, mem.effective_create_pr, _now_iso(clock))))
            /\ mem' = [mem EXCEPT !.committed = committed, !.tasks =
                         _update_task(mem.tasks,
                           TaskFinal(mem.t_doing, mem.effective_create_pr, _now_iso(clock)))]
            /\ outcome' = "no_changes"
            /\ pc' = "idle"
            /\ clock' = clock + 1
  /\ UNCHANGED << op, resp, hist, loop, apply, repo, thr >>

\* run_once lines 719-721: the push succeeds
PushOk ==
  /\ pc = "push"
  /\ pc' = IF mem.effective_create_pr THEN "create_pr" ELSE "finalize"
  /\ UNCHANGED << disk, clock, mem, outcome, op, resp, hist, loop, apply, repo, thr >>

\* run_once lines 726-729: the PR is created
PrOk ==
  /\ pc = "create_pr"
  /\ pc' = "finalize"
  /\ UNCHANGED << disk, clock, mem, outcome, op, resp, hist, loop, apply, repo, thr >>

\* run_once lines 736-752: _finalize_task_success and the normal return
Finalize ==
  /\ pc = "finalize"
  /\ disk' = _save_tasks_payload(mem.version, mem.next_id,
               _update_task(mem.tasks,
                 TaskFinal(mem.t_doing, mem.effective_create_pr, _now_iso(clock))))
  /\ mem' = [mem EXCEPT !.tasks =
               _update_task(mem.tasks,
                 TaskFinal(mem.t_doing, mem.effective_create_pr, _now_iso(clock)))]
  /\ outcome' = "ok"
  /\ pc' = "idle"
  /\ clock' = clock + 1
  /\ UNCHANGED << op, resp, hist, loop, apply, repo, thr >>

\* run_once lines 754-781: a step between the checkpoint and the final save
\* raises an Exception whose text is e; the task is saved blocked and the
\* exception raised again
StepRaises(e) ==
  /\ pc \in { "clean_git", "checkout_base", "create_branch", "apply", "checks",
              "commit", "push", "create_pr" }
  /\ disk' = _save_tasks_payload(mem.version, mem.next_id,
               _update_task(mem.tasks,
                 TaskBlocked(mem.t, mem.t_doing, e, _now_iso(clock))))
  /\ mem' = [mem EXCEPT !.err = e,
                        !.tasks = _update_task(mem.tasks,
                                    TaskBlocked(mem.t, mem.t_doing, e, _now_iso(clock)))]
  /\ outcome' = "raised"
  /\ pc' = "idle"
  /\ clock' = clock + 1
  /\ UNCHANGED << op, resp, hist, loop, apply, repo, thr >>

\* the steps of run_once between the doing checkpoint and its return
RunSteps ==
  \/ StepOk
  \/ CheckOk
  \/ \E committed \in BOOLEAN : CommitStep(committed)
  \/ PushOk
  \/ PrOk
  \/ Finalize

Next ==
  \/ Plan(RunResponses)
  \/ Add(RunResponses)
  \/ RunRaisesEarly
  \/ RunBegin
  \/ RunSteps
  \/ \E e \in ErrTexts : StepRaises(e)

Spec == Init /\ [][Next]_vars

\* the runner alone, its steps also failing with a long error text
NextRun ==
  \/ RunRaisesEarly
  \/ RunBegin
  \/ RunSteps
  \/ \E e \in ErrTexts \cup { LONG_ERR } : StepRaises(e)

SpecRun == Init /\ [][NextRun]_vars

\* the runner alone, its steps also failing with a text that names the chat
\* capability
NextClassify ==
  \/ RunRaisesEarly
  \/ RunBegin
  \/ RunSteps
  \/ \E e \in ErrTexts \cup { CHAT_QUOTA_TEXT } : StepRaises(e)

SpecClassify == Init /\ [][NextClassify]_vars

\* ------------------------------------------------------------------------
\* The task store alone: a backlog is saved, then loaded
\* ------------------------------------------------------------------------

TagX == << "x" >>

\* tasks as the program writes them: title and description stripped, status
\* one of the six, priority one of the three, optional fields None or text
StoreTasks(id) ==
  { Task(id, TitleA, EMPTY, st, pr, tags, _now_iso(1), _now_iso(1), started, done, reason) :
      st \in Statuses, pr \in Priorities, tags \in { << >>, << TagX >> },
      started \in { JNull, JStr(_now_iso(1)) },
      done \in { JNull, JStr(_now_iso(1)) },
      reason \in { JNull, JStr(BOOM) } }

StoreSecondTask ==
  Task(1, TitleB, TitleC, TODO, P3, << >>, _now_iso(1), _now_iso(1), JNull, JNull, JNull)

\* well-formed backlogs: unique positive ids, next_id above every id
StoreBacklogs ==
  { [version |-> v, next_id |-> 3 + d, tasks |-> ts] :
      v \in { 1, 2 }, d \in { 0, 1 },
      ts \in { << >> } \cup { << t >> : t \in StoreTasks(2) }
            \cup { << t, StoreSecondTask >> : t \in StoreTasks(2) }
            \cup { << StoreSecondTask, t >> : t \in StoreTasks(2) } }

InitStore ==
  /\ \E b \in StoreBacklogs :
       /\ mem = [NoMem EXCEPT !.tasks = b.tasks, !.version = b.version,
                              !.next_id = b.next_id]
       /\ hist = << b >>
  /\ disk = NoFile
  /\ clock = 1
  /\ pc = "idle"
  /\ outcome = "none"
  /\ op = "init"
  /\ resp = NoTasksBlock
  /\ loop = NoLoop
  /\ apply = NoApply
  /\ repo = ReadyRepo
  /\ thr = NoThreads

\* _save_tasks_payload writes the backlog held in memory
StoreSave ==
  /\ op = "init"
  /\ disk' = _save_tasks_payload(mem.version, mem.next_id, mem.tasks)
  /\ op' = "save"
  /\ mem' = NoMem
  /\ UNCHANGED << clock, pc, outcome, resp, hist, loop, apply, repo, thr >>

StoreLoaded(payload) ==
  /\ payload.ok
  /\ mem' = [NoMem EXCEPT !.tasks = payload.tasks, !.version = payload.version,
                          !.next_id = payload.next_id]

\* _load_tasks_payload reads it back, at any later time
StoreLoad ==
  /\ op = "save"
  /\ \E later \in 1..MaxClock :
       /\ clock' = later
       /\ StoreLoaded(_load_tasks_payload(disk, later))
  /\ op' = "load"
  /\ UNCHANGED << disk, pc, outcome, resp, hist, loop, apply, repo, thr >>

NextStore == StoreSave \/ StoreLoad

SpecStore == InitStore /\ [][NextStore]_vars

\* ------------------------------------------------------------------------
\* The reconciler alone: one proposal is merged, then merged again
\* ------------------------------------------------------------------------

\* the existing task 1, in every status
PlanTask1(st) ==
  Task(1, TitleA, EMPTY, st, P2, << >>, _now_iso(1), _now_iso(1),
       IF st \in { DOING, DONE, REVIEW, BLOCKED } THEN JStr(_now_iso(1)) ELSE JNull,
       IF st = DONE THEN JStr(_now_iso(1)) ELSE JNull,
       IF st = BLOCKED THEN JStr(BOOM) ELSE JNull)

\* the existing task 2, under its own title or under task 1's
PlanTask2(title, st) ==
  Task(2, title, EMPTY, st, P1, << TagX >>, _now_iso(1), _now_iso(1),
       IF st = DOING THEN JStr(_now_iso(1)) ELSE JNull, JNull, JNull)

PlanBacklogs ==
  { << >> } \cup { << PlanTask1(st) >> : st \in Statuses }
    \cup { << PlanTask1(st), PlanTask2(title, st2) >> :
             st \in Statuses, title \in { TitleB, TitleA }, st2 \in { TODO, DOING } }

\* proposal entries: no id, an id as a number, an id as text; no title, task
\* 1's title, task 2's title in another case and spacing; no status, null, a
\* valid status, an unknown one
PlanCands ==
  { Cand(id, title, status, JAbsent) :
      id \in { JAbsent, JInt(1), JStr(T_ONE) },
      title \in { JAbsent, JStr(TitleA), JStr(TitleBSpaced) },
      status \in { JAbsent, JNull, JStr(DONE), JStr(BOGUS) } }

PlanResponses ==
  { [k |-> "list", items |-> p] : p \in SeqsUpTo(PlanCands, MaxProposal) }

InitPlan ==
  /\ disk \in { _save_tasks_payload(1, 3, ts) : ts \in PlanBacklogs }
  /\ resp \in PlanResponses
  /\ hist = << >>
  /\ loop = NoLoop
  /\ apply = NoApply
  /\ repo = ReadyRepo
  /\ thr = NoThreads
  /\ clock = 1
  /\ pc = "idle"
  /\ mem = NoMem
  /\ outcome = "none"
  /\ op = "init"

ReplanSave(b) ==
  /\ disk' = _save_tasks_payload(b.version, b.next_id, b.tasks)
  /\ hist' = Append(hist, disk)
  /\ clock' = clock + 1
  /\ op' = "plan"
  /\ outcome' = "ok"
  /\ UNCHANGED << pc, mem, resp, loop, apply, repo, thr >>

\* tanuki plan with the provider returning resp, at most twice
Replan ==
  /\ Len(hist) < 2
  /\ ReplanSave(plan_from_brief(Loaded, resp, clock))

NextPlan == Replan

SpecPlan == InitPlan /\ [][NextPlan]_vars

\* ------------------------------------------------------------------------
\* Patch application (task_execute.py)
\* ------------------------------------------------------------------------

\* s[i:], i counted from 1
From(s, i) == SubSeq(s, i, Len(s))

\* s.startswith(m)
StartsWith(s, m) == Len(m) <= Len(s) /\ SubSeq(s, 1, Len(m)) = m

\* s.find(m) counted from 1, 0 when m is not in s
Find(s, m) ==
  IF Contains(s, m)
  THEN CHOOSE i \in 1..(Len(s) - Len(m) + 1) :
         /\ StartsWith(From(s, i), m)
         /\ \A k \in 1..(i - 1) : ~StartsWith(From(s, k), m)
  ELSE 0

\* the fence of three grave accents; a grave accent is written "~" here, a
\* character that no text of the model uses for anything else
FENCE == << "~","~","~" >>
DIFF_TAG == << "d","i","f","f" >>
PATCH_TAG == << "p","a","t","c","h" >>
DIFF_GIT == << "d","i","f","f"," ","-","-","g","i","t" >>
MINUS3 == << "-","-","-" >>
PLUS3 == << "+","+","+" >>
NEWLINE == << "\n" >>

\* the length of what (?:diff|patch)? takes at the head of s, case ignored
FenceTag(s) ==
  IF StartsWith(Lower(s), DIFF_TAG) THEN Len(DIFF_TAG)
  ELSE IF StartsWith(Lower(s), PATCH_TAG) THEN Len(PATCH_TAG) ELSE 0

\* task_execute.py _strip_code_fences (lines 46-50): the text between the
\* first fence, its tag and the whitespace after it, and the next fence
_strip_code_fences(text) ==
  LET i == Find(text, FENCE) IN
  IF i = 0 THEN Strip(text)
  ELSE LET after == From(text, i + Len(FENCE))
           body == LStrip(From(after, FenceTag(after) + 1))
           j == Find(body, FENCE)
       IN IF j = 0 THEN Strip(text) ELSE Strip(SubSeq(body, 1, j - 1))

\* text.replace("\r\n", "\n").replace("\r", "\n")
RECURSIVE UnixNewlines(_)
UnixNewlines(s) ==
  IF s = << >> THEN s
  ELSE IF Head(s) = "\r"
       THEN NEWLINE \o UnixNewlines(IF Len(s) > 1 /\ s[2] = "\n"
                                    THEN Tail(Tail(s)) ELSE Tail(s))
       ELSE << Head(s) >> \o UnixNewlines(Tail(s))

\* task_execute.py _normalize (lines 53-57)
_normalize(text) ==
  LET t == UnixNewlines(text) IN
  IF t # << >> /\ t[Len(t)] = "\n" THEN t ELSE t \o NEWLINE

\* s.splitlines(True): the lines of s, each with its line end
RECURSIVE SplitLines(_)
SplitLines(s) ==
  IF s = << >> THEN << >>
  ELSE LET n == Find(s, NEWLINE) IN
       IF n = 0 THEN << s >>
       ELSE << SubSeq(s, 1, n) >> \o SplitLines(From(s, n + 1))

\* the line.strip() values that end a diff (task_execute.py lines 72-75)
NoiseLines == { FENCE, FENCE \o DIFF_TAG, FENCE \o PATCH_TAG, MINUS3 }

\* task_execute.py lines 65-77: the loop of _trim_trailing_noise,
\* out being "".join(out)
RECURSIVE TrimLoop(_, _, _)
TrimLoop(lines, started, out) ==
  IF lines = << >> THEN out
  ELSE LET line == Head(lines) IN
       IF ~started
       THEN IF StartsWith(line, DIFF_GIT) \/ StartsWith(line, MINUS3 \o << " " >>)
            THEN TrimLoop(Tail(lines), TRUE, out \o line)
            ELSE TrimLoop(Tail(lines), FALSE, out)
       ELSE IF Strip(line) \in NoiseLines THEN out
            ELSE TrimLoop(Tail(lines), TRUE, out \o line)

\* task_execute.py _trim_trailing_noise (lines 60-79)
_trim_trailing_noise(diff_text) ==
  Strip(TrimLoop(SplitLines(diff_text), FALSE, << >>)) \o NEWLINE

\* where a match of \s+.+\n that starts at s[p] can end
WsTextEnds(s, p) ==
  { e \in (p + 2)..Len(s) :
      /\ s[e] = "\n"
      /\ \E a \in p..(e - 2) :
           /\ \A k \in p..a : s[k] \in Whitespace
           /\ \A k \in (a + 1)..(e - 1) : s[k] # "\n" }

\* ---\s+.+\n\+\+\+\s+.+\n matches at s[p]
HeaderAt(s, p) ==
  /\ StartsWith(From(s, p), MINUS3)
  /\ \E e \in WsTextEnds(s, p + Len(MINUS3)) :
       /\ StartsWith(From(s, e + 1), PLUS3)
       /\ WsTextEnds(s, e + 1 + Len(PLUS3)) # { }

\* m.start() of re.search(r"^---\s+.+\n\+\+\+\s+.+\n", raw, re.MULTILINE),
\* counted from 1, 0 when there is no match
HeaderStart(raw) ==
  LET S == { p \in 1..Len(raw) :
               (p = 1 \/ raw[p - 1] = "\n") /\ HeaderAt(raw, p) }
  IN IF S = { } THEN 0 ELSE CHOOSE p \in S : \A q \in S : p <= q

\* task_execute.py line 92: the bound of raw[:500]
PreviewLimit == 500

\* s.replace("\n", "\\n")
RECURSIVE EscapeNewlines(_)
EscapeNewlines(s) ==
  IF s = << >> THEN s
  ELSE (IF Head(s) = "\n" THEN << "\\", "n" >> ELSE << Head(s) >>)
       \o EscapeNewlines(Tail(s))

NO_DIFF_MSG ==
  << "M","o","d","e","l"," ","d","i","d"," ","n","o","t"," ","r","e","t",
     "u","r","n"," ","a"," ","r","e","c","o","g","n","i","z","a","b","l",
     "e"," ","u","n","i","f","i","e","d"," ","d","i","f","f","."," ","F",
     "i","r","s","t"," ","5","0","0"," ","c","h","a","r","s",":"," " >>

\* task_execute.py _extract_unified_diff (lines 82-97): the diff, or the
\* message of the TaskExecuteError it raises
_extract_unified_diff(text) ==
  LET raw == _normalize(_strip_code_fences(text))
      idx == Find(raw, DIFF_GIT)
      m == IF idx # 0 THEN 0 ELSE HeaderStart(raw)
  IN IF idx # 0
     THEN [ok |-> TRUE, diff |-> _trim_trailing_noise(From(raw, idx)), err |-> EMPTY]
     ELSE IF m # 0
     THEN [ok |-> TRUE, diff |-> _trim_trailing_noise(From(raw, m)), err |-> EMPTY]
     ELSE [ok |-> FALSE, diff |-> EMPTY,
           err |-> NO_DIFF_MSG \o EscapeNewlines(Prefix(raw, PreviewLimit))]

CHECK_FAILED ==
  << "g","i","t"," ","a","p","p","l","y"," ","-","-","c","h","e","c","k",
     " ","f","a","i","l","e","d",".","\n","\n","S","T","D","O","U","T",":",
     "\n" >>

APPLY_FAILED ==
  << "g","i","t"," ","a","p","p","l","y"," ","f","a","i","l","e","d",".",
     "\n","\n","S","T","D","O","U","T",":","\n" >>

STDERR_HEAD ==
  << "\n","\n","S","T","D","E","R","R",":","\n" >>

\* task_execute.py lines 113-115: the message of a failed dry run p
CheckFailedMsg(p) == CHECK_FAILED \o p.stdout \o STDERR_HEAD \o p.stderr

\* task_execute.py lines 125-127: the message of a failed apply p
ApplyFailedMsg(p) == APPLY_FAILED \o p.stdout \o STDERR_HEAD \o p.stderr

CORRUPT_PATCH ==
  << "c","o","r","r","u","p","t"," ","p","a","t","c","h" >>

PATCH_FAILED ==
  << "p","a","t","c","h"," ","f","a","i","l","e","d" >>

GIT_APPLY_CHECK_FAILED ==
  << "g","i","t"," ","a","p","p","l","y"," ","-","-","c","h","e","c","k",
     " ","f","a","i","l","e","d" >>

GIT_APPLY_FAILED ==
  << "g","i","t"," ","a","p","p","l","y"," ","f","a","i","l","e","d" >>

\* task_execute.py _is_corrupt_patch_error (lines 222-229)
_is_corrupt_patch_error(msg) ==
  LET m == Lower(msg) IN
  \/ Contains(m, CORRUPT_PATCH)
  \/ Contains(m, PATCH_FAILED)
  \/ Contains(m, GIT_APPLY_CHECK_FAILED)
  \/ Contains(m, GIT_APPLY_FAILED)

NO_ACTIVE_PROJECT ==
  << "N","o"," ","a","c","t","i","v","e"," ","p","r","o","j","e","c","t",
     "."," ","R","u","n",":"," ","t","a","n","u","k","i"," ","p","r","o",
     "j","e","c","t"," ","u","p"," ","-","-","p","a","t","h"," ","<","r",
     "e","p","o",">" >>

NO_TITLE ==
  << "T","a","s","k"," ","h","a","s"," ","n","o"," ","t","i","t","l","e",
     "." >>

CANNOT_IMPORT ==
  << "C","a","n","n","o","t"," ","i","m","p","o","r","t"," ","t","a","n",
     "u","k","i","_","b","o","t",".","c","o","r","e",".","l","l","m",".",
     "t","e","x","t","."," ","C","h","e","c","k"," ","s","r","c","/","t",
     "a","n","u","k","i","_","b","o","t","/","c","o","r","e","/","l","l",
     "m",".","p","y","." >>

EMPTY_RESPONSE ==
  << "L","L","M"," ","r","e","t","u","r","n","e","d"," ","e","m","p","t",
     "y"," ","r","e","s","p","o","n","s","e","." >>

\* ------------------------------------------------------------------------
\* apply_task as a state machine (task_execute.py lines 232-271)
\* ------------------------------------------------------------------------

\* what the provider returns for a prompt: nothing but whitespace, prose, a
\* diff, a fenced diff followed by a remark

RAW_BLANK ==
  << " ","\n" >>

RAW_PROSE ==
  << "S","o","r","r","y" >>

RAW_DIFF ==
  << "d","i","f","f"," ","-","-","g","i","t"," ","a","/","f"," ","b","/",
     "f","\n","@","@","\n","+","b" >>

RAW_FENCED ==
  << "~","~","~","d","i","f","f","\n","-","-","-"," ","a","/","f","\n","+",
     "+","+"," ","b","/","f","\n","+","b","\n","~","~","~","\n","o","k" >>

ProviderTexts == { RAW_BLANK, RAW_PROSE, RAW_DIFF, RAW_FENCED }

ERR_CORRUPT ==
  << "e","r","r","o","r",":"," ","c","o","r","r","u","p","t"," ","p","a",
     "t","c","h"," ","a","t"," ","l","i","n","e"," ","3","\n" >>

ERR_MISMATCH ==
  << "e","r","r","o","r",":"," ","f",":"," ","p","a","t","c","h"," ","d",
     "o","e","s"," ","n","o","t"," ","a","p","p","l","y","\n" >>

\* a subprocess.CompletedProcess
Completed(returncode, stdout, stderr) ==
  [returncode |-> returncode, stdout |-> stdout, stderr |-> stderr]

\* how git apply can end: accepted, a malformed patch, a patch that does not
\* match the working tree
GitResults ==
  { Completed(0, EMPTY, EMPTY), Completed(128, EMPTY, ERR_CORRUPT),
    Completed(1, EMPTY, ERR_MISMATCH) }

\* one external call of apply_task: cmd is "llm", "check" or "apply", rc is 0
\* when it succeeded, text is what was received (llm) or sent (git)
Call(cmd, rc, text) == [cmd |-> cmd, rc |-> rc, text |-> text]

\* the calls of one kind in a log, in order
RECURSIVE CallsOf(_, _)
CallsOf(log, cmd) ==
  IF log = << >> THEN << >>
  ELSE (IF Head(log).cmd = cmd THEN << Head(log) >> ELSE << >>)
       \o CallsOf(Tail(log), cmd)

\* apply_task returns or raises: a holds its locals at that point
ApplyEnds(a, how) ==
  /\ apply' = a
  /\ pc' = "idle"
  /\ outcome' = how
  /\ clock' = clock + 1

\* apply_task goes on to its next statement
ApplyGoes(a, where) ==
  /\ apply' = a
  /\ pc' = where
  /\ UNCHANGED << outcome, clock >>

\* task_execute.py lines 232-249: apply_task is called
ApplyBegin ==
  /\ pc = "idle"
  /\ clock <= MaxClock
  /\ op' = "apply_task"
  /\ \E pid \in BOOLEAN, title \in { EMPTY, TitleA } :
       IF ~pid
       THEN ApplyEnds([NoApply EXCEPT !.e = NO_ACTIVE_PROJECT], "raised")
       ELSE IF title = EMPTY
       THEN ApplyEnds([NoApply EXCEPT !.e = NO_TITLE], "raised")
       ELSE ApplyGoes([NoApply EXCEPT !.attempt = 1], "call_llm")
  /\ UNCHANGED << disk, mem, resp, hist, loop, repo, thr >>

\* task_execute.py _call_llm (lines 208-219), called at lines 251 and 265:
\* the import fails, the provider raises, or it returns a text
ApplyCallLlm ==
  /\ pc = "call_llm"
  /\ \/ ApplyEnds([apply EXCEPT !.e = CANNOT_IMPORT], "raised")
     \/ \E e \in { QUOTA_TEXT } :
          ApplyEnds([apply EXCEPT !.e = e,
                                  !.log = Append(@, Call("llm", 1, e))], "raised")
     \/ \E r \in ProviderTexts :
          LET a == [apply EXCEPT !.log = Append(@, Call("llm", 0, r))] IN
          IF Strip(r) = EMPTY
          THEN ApplyEnds([a EXCEPT !.e = EMPTY_RESPONSE], "raised")
          ELSE ApplyGoes([a EXCEPT !.raw = r], "extract")
  /\ UNCHANGED << disk, mem, op, resp, hist, loop, repo, thr >>

\* task_execute.py lines 253 and 267: the diff is cut out of the response
ApplyExtract ==
  /\ pc = "extract"
  /\ LET x == _extract_unified_diff(apply.raw) IN
     IF x.ok THEN ApplyGoes([apply EXCEPT !.diff = x.diff], "git_check")
     ELSE ApplyEnds([apply EXCEPT !.e = x.err], "raised")
  /\ UNCHANGED << disk, mem, op, resp, hist, loop, repo, thr >>

\* a second repair after the repaired diff fails too
AfterGitFailureRepairAgain(attempt) == "except"

\* task_execute.py lines 256-259 and 270: a failure of the first _git_apply
\* is caught, a failure of the second is not
AfterGitFailure(attempt) == IF attempt = 1 THEN "except" ELSE "raise"

\* _git_apply raises the TaskExecuteError with message msg
GitApplyRaises(a, msg) ==
  IF AfterGitFailure(a.attempt) = "except"
  THEN ApplyGoes([a EXCEPT !.e = msg], "except")
  ELSE ApplyEnds([a EXCEPT !.e = msg], "raised")

\* a dry run whose exit code is not looked at
ApplyCheckIgnored ==
  /\ pc = "git_check"
  /\ \E p \in GitResults :
       ApplyGoes([apply EXCEPT
                    !.log = Append(@, Call("check", p.returncode, apply.diff))],
                 "git_apply")
  /\ UNCHANGED << disk, mem, op, resp, hist, loop, repo, thr >>

\* task_execute.py lines 111-115: the dry run of _git_apply
ApplyCheck ==
  /\ pc = "git_check"
  /\ \E p \in GitResults :
       LET a == [apply EXCEPT
                   !.log = Append(@, Call("check", p.returncode, apply.diff))]
       IN IF p.returncode # 0 THEN GitApplyRaises(a, CheckFailedMsg(p))
          ELSE ApplyGoes(a, "git_apply")
  /\ UNCHANGED << disk, mem, op, resp, hist, loop, repo, thr >>

\* task_execute.py lines 117-127 and 258, 271: the apply of _git_apply and,
\* when it succeeds, the return of apply_task
ApplyMutate ==
  /\ pc = "git_apply"
  /\ \E p \in GitResults :
       LET a == [apply EXCEPT
                   !.log = Append(@, Call("apply", p.returncode, apply.diff))]
       IN IF p.returncode # 0 THEN GitApplyRaises(a, ApplyFailedMsg(p))
          ELSE ApplyEnds(a, "applied")
  /\ UNCHANGED << disk, mem, op, resp, hist, loop, repo, thr >>

\* task_execute.py lines 259-264: the handler of the first failure
ApplyExcept ==
  /\ pc = "except"
  /\ IF ~_is_corrupt_patch_error(apply.e) THEN ApplyEnds(apply, "raised")
     ELSE ApplyGoes([apply EXCEPT !.attempt = @ + 1], "call_llm")
  /\ UNCHANGED << disk, mem, op, resp, hist, loop, repo, thr >>

NextApply ==
  \/ ApplyBegin
  \/ ApplyCallLlm
  \/ ApplyExtract
  \/ ApplyCheck
  \/ ApplyMutate
  \/ ApplyExcept

SpecApply == Init /\ [][NextApply]_vars

\* ------------------------------------------------------------------------
\* The runner with verification commands that fail
\* ------------------------------------------------------------------------

CMD_FAILED ==
  << "C","o","m","m","a","n","d"," ","f","a","i","l","e","d",":"," " >>

STDOUT_HEAD ==
  << "\n","\n","S","T","D","O","U","T",":","\n" >>

\* runner.py lines 145-148 (and 166-168): the message of the CmdError of a
\* command that exits non-zero, cmd being the arguments joined by spaces
CmdErrorMsg(cmd, stdout, stderr) ==
  CMD_FAILED \o cmd \o STDOUT_HEAD \o stdout \o STDERR_HEAD \o stderr

SHELL ==
  << "/","b","i","n","/","s","h"," ","-","l","c"," " >>

\* runner.py _run_shell (lines 172-174): the arguments of a verification
\* command, joined by spaces
ShellCmd(command) == SHELL \o command

CHECK_COMMAND ==
  << "m","a","k","e"," ","t","e","s","t" >>

OUT_ONE_FAILED ==
  << "1"," ","f","a","i","l","e","d","\n" >>

OUT_STATUS_429 ==
  << "E"," ","s","t","a","t","u","s"," ","4","2","9","\n" >>

LINT_COMMAND ==
  << "m","a","k","e"," ","l","i","n","t" >>

\* cfg.checks: the configured commands are the last ones of make lint, make
\* test; the loop of line 685 runs them in that order, so with k commands
\* still to run the next one is
CheckCommand(k) == IF k = 1 THEN CHECK_COMMAND ELSE LINT_COMMAND

\* what a failing verification command has printed: a test count, a test
\* that saw an HTTP status, more than the runner keeps
CheckOutputs == { OUT_ONE_FAILED, OUT_STATUS_429, LONG_ERR }

\* a failing verification command that is reported while the loop goes on
CheckRaisesGoingOn ==
  /\ pc = "checks"
  /\ \E out \in CheckOutputs :
       mem' = [mem EXCEPT !.checks = mem.checks - 1,
                          !.err = CmdErrorMsg(ShellCmd(CheckCommand(mem.checks)), out, EMPTY)]
  /\ outcome' = "raised"
  /\ pc' = IF mem.checks > 1 THEN "checks" ELSE "commit"
  /\ UNCHANGED << disk, clock, op, resp, hist, loop, apply, repo, thr >>

\* runner.py lines 685-688 and 754-781: a verification command exits
\* non-zero, _run_shell raises the CmdError and the pass blocks the task
CheckRaises ==
  /\ pc = "checks"
  /\ \E out \in CheckOutputs :
       StepRaises(CmdErrorMsg(ShellCmd(CheckCommand(mem.checks)), out, EMPTY))

NextCheck ==
  \/ RunRaisesEarly
  \/ RunBegin
  \/ RunSteps
  \/ \E e \in { BOOM } : StepRaises(e)
  \/ CheckRaises

SpecCheck == Init /\ [][NextCheck]_vars

\* ------------------------------------------------------------------------
\* The continuous loop (runner.py run_forever, lines 784-844)
\* ------------------------------------------------------------------------

NO_TODO_MSG ==
  << "N","o"," ","t","o","d","o"," ","t","a","s","k","s"," ","f","o","u",
     "n","d","." >>

HALT_MSG ==
  << "H","a","y"," ","t","a","r","e","a","s"," ","b","l","o","q","u","e",
     "a","d","a","s"," ","y"," ","n","o"," ","q","u","e","d","a","n"," ",
     "T","O","D","O","."," ","N","o"," ","a","v","a","n","z","o","." >>

BLOQUEAD ==
  << "b","l","o","q","u","e","a","d" >>

\* the dict run_once returns, by how the pass ended: runner.py lines 623
\* (halt), 627 (nothing to do), 640, 710-717 and 752 (a task was handled)
Result(how) ==
  CASE how = "halted" -> [ok |-> FALSE, message |-> JStr(HALT_MSG), error |-> JAbsent]
    [] how = "no_todo" -> [ok |-> TRUE, message |-> JStr(NO_TODO_MSG), error |-> JAbsent]
    [] OTHER -> [ok |-> TRUE, message |-> JAbsent, error |-> JAbsent]

\* str(r.get("message", ""))
MessageText(r) == IF r.message.k = "absent" THEN EMPTY ELSE PyStr(r.message)

\* the pass raised: the exception leaves run_once
PassRaised(how) == how \in { "raised", "raised_early" }

\* a loop that returns when a pass raises
AfterPassStopOnError(l, how, err) ==
  IF PassRaised(how)
  THEN [l EXCEPT !.results = Append(@, [ok |-> FALSE, message |-> JAbsent,
                                        error |-> JStr(err)]),
                 !.phase = "stopped", !.stop = "raised"]
  ELSE [l EXCEPT !.results = Append(@, Result(how)), !.ran = @ + 1,
                 !.phase = "top"]

\* a loop that goes on after the halt of a pass
AfterPassNoHalt(l, how, err) ==
  IF PassRaised(how)
  THEN [l EXCEPT !.results = Append(@, [ok |-> FALSE, message |-> JAbsent,
                                        error |-> JStr(err)]),
                 !.phase = "top"]
  ELSE LET r == Result(how)
           c == [l EXCEPT !.results = Append(@, r), !.ran = @ + 1]
       IN IF r.message = JStr(NO_TODO_MSG)
          THEN IF l.poll_seconds = JNull
               THEN [c EXCEPT !.phase = "stopped", !.stop = "no_todo"]
               ELSE [c EXCEPT !.phase = "sleep"]
          ELSE [c EXCEPT !.phase = "top"]

\* runner.py lines 814-842: what run_forever does with the end of a pass;
\* l holds its locals, how is how run_once ended, err the text of the
\* exception when it raised
AfterPass(l, how, err) ==
  IF PassRaised(how)
  THEN [l EXCEPT !.results = Append(@, [ok |-> FALSE, message |-> JAbsent,
                                        error |-> JStr(err)]),
                 !.phase = "top"]
  ELSE LET r == Result(how)
           c == [l EXCEPT !.results = Append(@, r), !.ran = @ + 1]
       IN IF r.message = JStr(NO_TODO_MSG)
          THEN IF l.poll_seconds = JNull
               THEN [c EXCEPT !.phase = "stopped", !.stop = "no_todo"]
               ELSE [c EXCEPT !.phase = "sleep"]
          ELSE IF ~r.ok /\ Contains(Lower(MessageText(r)), BLOQUEAD)
          THEN [c EXCEPT !.phase = "stopped", !.stop = "halted"]
          ELSE [c EXCEPT !.phase = "top"]

\* the task-count ceilings and the poll intervals run_forever is called with
MaxTasksPool == { JNull, JInt(0), JInt(1), JInt(2) }

PollPool == { JNull, JInt(1) }

\* runner.py lines 784-802: run_forever is called
LoopStart ==
  /\ loop.phase = "off"
  /\ pc = "idle"
  /\ \E max_tasks \in MaxTasksPool, poll_seconds \in PollPool :
     \E create_pr, dry_run \in BOOLEAN :
       loop' = [ phase |-> "top", ran |-> 0, started |-> 0,
                 max_tasks |-> max_tasks, poll_seconds |-> poll_seconds,
                 create_pr |-> create_pr, dry_run |-> dry_run, at |-> 0,
                 stop |-> "", results |-> << >> ]
  /\ UNCHANGED << disk, clock, pc, mem, outcome, op, resp, hist, apply, repo, thr >>

\* runner.py lines 804-809: the ceiling test at the top of the loop, then the
\* call of run_once
LoopTop ==
  /\ loop.phase = "top"
  /\ loop' = IF loop.max_tasks # JNull /\ loop.ran >= loop.max_tasks.n
             THEN [loop EXCEPT !.phase = "stopped", !.stop = "max_tasks"]
             ELSE [loop EXCEPT !.phase = "call", !.at = clock, !.started = @ + 1]
  /\ UNCHANGED << disk, clock, pc, mem, outcome, op, resp, hist, apply, repo, thr >>

\* the pass that run_forever has called is going on
InPass == loop.phase = "call" /\ clock = loop.at

\* runner.py lines 810-814: the arguments run_forever passes to run_once
LoopArgs ==
  /\ ~mem'.ignore_blocked
  /\ outcome' = "dry_run" => loop.dry_run
  /\ outcome' = "running" => ~loop.dry_run
  /\ outcome' \in { "dry_run", "running" } =>
       mem'.effective_create_pr = (loop.create_pr /\ mem'.remote_ok)

LoopRunBegin == InPass /\ RunBegin /\ LoopArgs

LoopRaisesEarly == InPass /\ RunRaisesEarly

LoopRunSteps == InPass /\ RunSteps

LoopStepRaises == InPass /\ \E e \in ErrTexts : StepRaises(e)

\* runner.py lines 815-842: run_once has returned or raised
LoopReturn ==
  /\ loop.phase = "call"
  /\ pc = "idle"
  /\ clock > loop.at
  /\ loop' = AfterPass(loop, outcome, mem.err)
  /\ UNCHANGED << disk, clock, pc, mem, outcome, op, resp, hist, apply, repo, thr >>

\* runner.py lines 825-827: the wait of the daemon mode is over
LoopWake ==
  /\ loop.phase = "sleep"
  /\ loop' = [loop EXCEPT !.phase = "top"]
  /\ UNCHANGED << disk, clock, pc, mem, outcome, op, resp, hist, apply, repo, thr >>

NextLoop ==
  \/ LoopStart
  \/ LoopTop
  \/ LoopRunBegin
  \/ LoopRaisesEarly
  \/ LoopRunSteps
  \/ LoopStepRaises
  \/ LoopReturn
  \/ LoopWake

SpecLoop == Init /\ [][NextLoop]_vars

\* ------------------------------------------------------------------------
\* Loading documents that are not well formed, then saving what was loaded
\* ------------------------------------------------------------------------

\* a file that json.loads rejects, and one whose top-level value is an array
NotJsonDoc == [NoFile EXCEPT !.kind = "notjson"]

NonDictDoc == [NoFile EXCEPT !.kind = "nondict"]

\* what the "tasks" array of a document holds: two task objects and a value
\* that is not an object
LoadEntries == { to_dict(StoreSecondTask), to_dict(PlanTask1(BLOCKED)), NotADict }

\* the value of the "tasks" key: none, null, or an array
LoadTaskFields ==
  { [k |-> "absent", items |-> << >>], [k |-> "null", items |-> << >>],
    [k |-> "list", items |-> << >>] }
    \cup { [k |-> "list", items |-> s] : s \in SeqsUpTo(LoadEntries, 2) }

LoadDocs ==
  { NotJsonDoc, NonDictDoc }
    \cup { [kind |-> "dict", version |-> v, next_id |-> n, tasks |-> t] :
             v \in { JInt(1), JAbsent }, n \in { JInt(3), JAbsent },
             t \in LoadTaskFields }

InitLoad ==
  /\ disk \in LoadDocs
  /\ hist = << disk >>
  /\ clock = 1
  /\ pc = "idle"
  /\ mem = NoMem
  /\ outcome = "none"
  /\ op = "init"
  /\ resp = NoTasksBlock
  /\ loop = NoLoop
  /\ apply = NoApply
  /\ repo = ReadyRepo
  /\ thr = NoThreads

\* plan.py lines 171-200: _load_tasks_payload returns the payload or raises
LoadReturns(payload) ==
  IF payload.ok
  THEN /\ mem' = [NoMem EXCEPT !.tasks = payload.tasks, !.version = payload.version,
                               !.next_id = payload.next_id]
       /\ outcome' = "ok"
  ELSE /\ mem' = NoMem
       /\ outcome' = "raised"

\* an operation loads the backlog file
LoadFile ==
  /\ op = "init"
  /\ op' = "load"
  /\ LoadReturns(Loaded)
  /\ UNCHANGED << disk, clock, pc, resp, hist, loop, apply, repo, thr >>

\* plan.py lines 203-205: the operation saves the backlog it has loaded
SaveLoaded ==
  /\ op = "load"
  /\ outcome = "ok"
  /\ op' = "save"
  /\ disk' = _save_tasks_payload(mem.version, mem.next_id, mem.tasks)
  /\ UNCHANGED << clock, pc, mem, outcome, resp, hist, loop, apply, repo, thr >>

NextLoad == LoadFile \/ SaveLoaded

SpecLoad == InitLoad /\ [][NextLoad]_vars

\* ------------------------------------------------------------------------
\* The reconciler when the provider's tasks block is unusable
\* ------------------------------------------------------------------------

\* tasks blocks from which plan.py lines 406-413 get no task: text that is
\* not JSON, a "tasks" value that is no list, an empty list, a list without
\* an object
FailResponses ==
  { NoTasksBlock, [k |-> "null", items |-> << >>], [k |-> "list", items |-> << >>],
    [k |-> "list", items |-> << [Cand(JAbsent, JAbsent, JAbsent, JAbsent)
                                   EXCEPT !.isdict = FALSE] >>] }

\* a task a user has named like the synthetic task, in another case
OwnFixTask ==
  Task(2, Lower(FIX_PLAN_OUTPUT), EMPTY, DONE, P2, << >>, _now_iso(1), _now_iso(1),
       JStr(_now_iso(1)), JStr(_now_iso(1)), JNull)

FailBacklogs == PlanBacklogs \cup { << PlanTask1(TODO), OwnFixTask >> }

InitFailPlan ==
  /\ disk \in { _save_tasks_payload(1, 3, ts) : ts \in FailBacklogs }
  /\ resp = NoTasksBlock
  /\ hist = << >>
  /\ loop = NoLoop
  /\ apply = NoApply
  /\ repo = ReadyRepo
  /\ thr = NoThreads
  /\ clock = 1
  /\ pc = "idle"
  /\ mem = NoMem
  /\ outcome = "none"
  /\ op = "init"

NextFailPlan == Plan(FailResponses)

SpecFailPlan == InitFailPlan /\ [][NextFailPlan]_vars

\* ------------------------------------------------------------------------
\* The append-only variant on backlogs the program has written
\* ------------------------------------------------------------------------

NextAdd == Add(RunResponses)

\* the file holds a backlog _save_tasks_payload wrote; tanuki task add runs
\* on it, again and again
SpecAdd == InitFailPlan /\ [][NextAdd]_vars

\* ------------------------------------------------------------------------
\* The runner on a repository in any state
\* ------------------------------------------------------------------------

\* a blocked task with a reason the classifier takes for transient
QuotaBlockedTask ==
  Task(1, TitleA, EMPTY, BLOCKED, P2, << >>, _now_iso(1), _now_iso(1),
       JStr(_now_iso(1)), JNull, JStr(QUOTA_TEXT))

\* backlogs the program wrote: a task to select alone, after a blocked task
\* that stays blocked, after one the classifier resets; one that the
\* classifier makes selectable; one with nothing to select
PassBacklogs ==
  { << PlanTask2(TitleB, TODO) >>,
    << PlanTask1(BLOCKED), PlanTask2(TitleB, TODO) >>,
    << QuotaBlockedTask, PlanTask2(TitleB, TODO) >>,
    << QuotaBlockedTask >>,
    << PlanTask1(DONE) >> }

\* what run_once may find at the project's path: a plain directory, a
\* repository without a commit, a repository with one; the user's global
\* configuration names an identity or not
RepoStates ==
  { r \in [ git : BOOLEAN, identity : BOOLEAN, head : BOOLEAN ] : r.head => r.git }

InitPass ==
  /\ disk \in { _save_tasks_payload(1, 3, ts) : ts \in PassBacklogs }
  /\ repo \in RepoStates
  /\ thr = NoThreads
  /\ resp = NoTasksBlock
  /\ hist = << >>
  /\ loop = NoLoop
  /\ apply = NoApply
  /\ clock = 1
  /\ pc = "idle"
  /\ mem = NoMem
  /\ outcome = "none"
  /\ op = "init"

NextPass ==
  \/ RunRaisesEarly
  \/ RunBegin
  \/ RunSteps
  \/ \E e \in ErrTexts : StepRaises(e)

SpecPass == InitPass /\ [][NextPass]_vars

\* ------------------------------------------------------------------------
\* Running a command (runner.py _run and _run_live, lines 103-169)
\* ------------------------------------------------------------------------

MaxLines == 2

LINE_A == << "a", "\n" >>
LINE_B == << "b", "\n" >>

\* the lines a command writes
CmdLines == { LINE_A, LINE_B }

\* the exit codes of a command
ExitCodes == { 0, 1, 2 }

\* "".join(parts)
RECURSIVE Joined(_)
Joined(parts) ==
  IF parts = << >> THEN EMPTY ELSE Head(parts) \o Joined(Tail(parts))

\* what _run gives its caller: a CompletedProcess, or a CmdError with msg
Returned(returncode, stdout, stderr) ==
  [ raised |-> FALSE, msg |-> EMPTY, returncode |-> returncode,
    stdout |-> stdout, stderr |-> stderr ]

Raised(msg) ==
  [ raised |-> TRUE, msg |-> msg, returncode |-> 0, stdout |-> EMPTY, stderr |-> EMPTY ]

\* _run with live = False (lines 163-169): subprocess.run has captured
\* stdout and stderr of the command that exited with rc
RunCaptured(check, rc, stdout, stderr) ==
  IF check /\ rc # 0
    THEN Raised(CmdErrorMsg(ShellCmd(CHECK_COMMAND), stdout, stderr))
    ELSE Returned(rc, stdout, stderr)

\* _run_live lines 140-149: what it returns or raises from the parts the
\* readers have appended
RunLiveEnds(rc, out_parts, err_parts) ==
  IF rc # 0
    THEN Raised(CmdErrorMsg(ShellCmd(CHECK_COMMAND), Joined(out_parts), Joined(err_parts)))
    ELSE Returned(rc, Joined(out_parts), Joined(err_parts))

\* _run with live = True (lines 153-162): without check a CmdError of
\* _run_live becomes a CompletedProcess
RunLive(check, r) ==
  IF r.raised /\ ~check THEN Returned(1, EMPTY, r.msg) ELSE r

\* _run is called: Popen has started the command (rc -1 while it runs), and
\* with live the two reader threads
CmdStarted(check, live) ==
  [ main |-> "wait", check |-> check, live |-> live, rc |-> -1,
    wout |-> << >>, werr |-> << >>, pout |-> << >>, perr |-> << >>,
    out_parts |-> << >>, err_parts |-> << >>,
    t1 |-> IF live THEN "reading" ELSE "off",
    t2 |-> IF live THEN "reading" ELSE "off",
    result |-> Returned(0, EMPTY, EMPTY) ]

InitLive ==
  /\ disk = NoFile
  /\ clock = 1
  /\ pc = "idle"
  /\ mem = NoMem
  /\ outcome = "none"
  /\ op = "init"
  /\ resp = NoTasksBlock
  /\ hist = << >>
  /\ loop = NoLoop
  /\ apply = NoApply
  /\ repo = ReadyRepo
  /\ thr \in { CmdStarted(check, live) : check, live \in BOOLEAN }

LiveFrame == UNCHANGED << disk, clock, pc, mem, outcome, op, resp, hist, loop, apply, repo >>

\* the command writes a line to its stdout
CmdWritesOut ==
  /\ thr.main # "off"
  /\ thr.rc = -1
  /\ Len(thr.wout) + Len(thr.werr) < MaxLines
  /\ \E l \in CmdLines :
       thr' = [thr EXCEPT !.wout = Append(@, l), !.pout = Append(@, l)]
  /\ LiveFrame

\* the command writes a line to its stderr
CmdWritesErr ==
  /\ thr.main # "off"
  /\ thr.rc = -1
  /\ Len(thr.wout) + Len(thr.werr) < MaxLines
  /\ \E l \in CmdLines :
       thr' = [thr EXCEPT !.werr = Append(@, l), !.perr = Append(@, l)]
  /\ LiveFrame

\* the command exits
CmdExits ==
  /\ thr.main # "off"
  /\ thr.rc = -1
  /\ \E rc \in ExitCodes : thr' = [thr EXCEPT !.rc = rc]
  /\ LiveFrame

\* _read_stdout (lines 121-124): one turn of the loop, or its end at the end
\* of the stream
ReadStdout ==
  /\ thr.main # "off"
  /\ thr.t1 = "reading"
  /\ IF thr.pout # << >>
       THEN thr' = [thr EXCEPT !.out_parts = Append(@, Head(thr.pout)),
                                !.pout = Tail(@)]
       ELSE thr.rc # -1 /\ thr' = [thr EXCEPT !.t1 = "done"]
  /\ LiveFrame

\* _read_stderr (lines 126-129)
ReadStderr ==
  /\ thr.main # "off"
  /\ thr.t2 = "reading"
  /\ IF thr.perr # << >>
       THEN thr' = [thr EXCEPT !.err_parts = Append(@, Head(thr.perr)),
                                !.perr = Tail(@)]
       ELSE thr.rc # -1 /\ thr' = [thr EXCEPT !.t2 = "done"]
  /\ LiveFrame

\* line 136: p.wait() returns once the command has exited
LiveWait ==
  /\ thr.main = "wait"
  /\ thr.live
  /\ thr.rc # -1
  /\ thr' = [thr EXCEPT !.main = "join_t1"]
  /\ LiveFrame

\* line 137: t1.join(timeout=1.0) returns when the reader has ended or when
\* the second has passed, whichever is first
JoinT1 ==
  /\ thr.main = "join_t1"
  /\ thr' = [thr EXCEPT !.main = "join_t2"]
  /\ LiveFrame

\* lines 138-149 and 153-162: t2.join(timeout=1.0) returns likewise, the
\* parts are joined and _run returns or raises
JoinT2 ==
  /\ thr.main = "join_t2"
  /\ thr' = [thr EXCEPT !.main = "done",
                        !.result = RunLive(thr.check,
                                     RunLiveEnds(thr.rc, thr.out_parts, thr.err_parts))]
  /\ LiveFrame

\* lines 164-169: subprocess.run returns once the command has exited and
\* both streams are read to their end
RunPlain ==
  /\ thr.main = "wait"
  /\ ~thr.live
  /\ thr.rc # -1
  /\ thr' = [thr EXCEPT !.main = "done", !.pout = << >>, !.perr = << >>,
                        !.result = RunCaptured(thr.check, thr.rc,
                                               Joined(thr.wout), Joined(thr.werr))]
  /\ LiveFrame

NextLive ==
  \/ CmdWritesOut
  \/ CmdWritesErr
  \/ CmdExits
  \/ ReadStdout
  \/ ReadStderr
  \/ LiveWait
  \/ JoinT1
  \/ JoinT2
  \/ RunPlain

SpecLive == InitLive /\ [][NextLive]_vars

\* ------------------------------------------------------------------------
\* The progress heartbeat (runner.py _Heartbeat, lines 61-84, around the
\* provider call of lines 679-683)
\* ------------------------------------------------------------------------

MaxDots == 3

\* how apply_task ends inside the with block: it returns, or raises an
\* exception with one of these texts
CallEndings ==
  { [raised |-> FALSE, e |-> EMPTY] } \cup { [raised |-> TRUE, e |-> e] : e \in ErrTexts }

NoEnding == [raised |-> FALSE, e |-> << "-" >>]

\* run_once reaches the with statement: the Event is clear, no thread runs;
\* dots counts the progress output, late what was emitted with the Event set
BeatCreated ==
  [ main |-> "enter", stop |-> FALSE, hb |-> "off", dots |-> 0, late |-> 0,
    pending |-> NoEnding, result |-> NoEnding ]

InitBeat ==
  /\ disk = NoFile
  /\ clock = 1
  /\ pc = "idle"
  /\ mem = NoMem
  /\ outcome = "none"
  /\ op = "init"
  /\ resp = NoTasksBlock
  /\ hist = << >>
  /\ loop = NoLoop
  /\ apply = NoApply
  /\ repo = ReadyRepo
  /\ thr = BeatCreated

\* __enter__ (lines 72-75): the thread is started and the call begins
BeatEnter ==
  /\ thr.main = "enter"
  /\ thr' = [thr EXCEPT !.main = "call", !.hb = "waiting"]
  /\ LiveFrame

\* _run line 78: _stop.wait(interval) returns False, the interval having
\* passed with the Event clear
BeatWaitTimesOut ==
  /\ thr.main # "off"
  /\ thr.hb = "waiting"
  /\ ~thr.stop
  /\ thr.dots < MaxDots
  /\ thr' = [thr EXCEPT !.hb = "printing"]
  /\ LiveFrame

\* _run line 78: _stop.wait(interval) returns True and the thread ends
BeatWaitSeesStop ==
  /\ thr.main # "off"
  /\ thr.hb = "waiting"
  /\ thr.stop
  /\ thr' = [thr EXCEPT !.hb = "ended"]
  /\ LiveFrame

\* _run line 79: the dot is printed
BeatPrints ==
  /\ thr.main # "off"
  /\ thr.hb = "printing"
  /\ thr' = [thr EXCEPT !.hb = "waiting", !.dots = @ + 1,
                        !.late = @ + (IF thr.stop THEN 1 ELSE 0)]
  /\ LiveFrame

\* _run line 79: _print raises (the terminal is gone) and the thread dies
BeatPrintFails ==
  /\ thr.main # "off"
  /\ thr.hb = "printing"
  /\ thr' = [thr EXCEPT !.hb = "ended"]
  /\ LiveFrame

\* line 681: apply_task returns or raises
BeatCallEnds ==
  /\ thr.main = "call"
  /\ \E r \in CallEndings : thr' = [thr EXCEPT !.main = "exit", !.pending = r]
  /\ LiveFrame

\* __exit__ line 82: the Event is set
BeatSignals ==
  /\ thr.main = "exit"
  /\ thr' = [thr EXCEPT !.main = "join", !.stop = TRUE]
  /\ LiveFrame

\* __exit__ lines 83-84: join(timeout=1.0) returns, the thread ended or not;
\* __exit__ returns None, so what the call returned or raised goes on to
\* run_once
BeatJoins ==
  /\ thr.main = "join"
  /\ thr' = [thr EXCEPT !.main = "done", !.result = thr.pending]
  /\ LiveFrame

NextBeat ==
  \/ BeatEnter
  \/ BeatWaitTimesOut
  \/ BeatWaitSeesStop
  \/ BeatPrints
  \/ BeatPrintFails
  \/ BeatCallEnds
  \/ BeatSignals
  \/ BeatJoins

SpecBeat == InitBeat /\ [][NextBeat]_vars

\* ------------------------------------------------------------------------
\* The runner where the provider entry point may be missing
\* ------------------------------------------------------------------------

\* runner.py line 676 with task_execute.py lines 208-219: apply_task raises
\* its import error in a pass that found the provider module unusable
ApplyRaisesNoProvider ==
  /\ pc = "apply"
  /\ ~mem.can_llm
  /\ StepRaises(CANNOT_IMPORT)

NextCapability ==
  \/ RunRaisesEarly
  \/ RunBegin
  \/ RunSteps
  \/ \E e \in ErrTexts : StepRaises(e)
  \/ ApplyRaisesNoProvider

SpecCapability == InitPass /\ [][NextCapability]_vars

\* ------------------------------------------------------------------------
\* The reconciler updating one matched task
\* ------------------------------------------------------------------------

BLANK == << " ", " " >>

\* task 1 as plan_from_brief creates it from a proposal entry with a status:
\* no timestamp of a transition, no reason
FreshTask1(st) ==
  Task(1, TitleA, EMPTY, st, P2, << >>, _now_iso(1), _now_iso(1),
       JNull, JNull, JNull)

\* task 1 as the program leaves it: after the runner or a transition under
\* plan_from_brief, fresh from a proposal, and doing with the reason of an
\* earlier block
UpdateBacklogs ==
  { << PlanTask1(st) >> : st \in Statuses }
    \cup { << FreshTask1(st) >> : st \in { DOING, BLOCKED, DONE } }
    \cup { << [PlanTask1(DOING) EXCEPT !.blocked_reason = JStr(BOOM)] >> }

\* proposal entries for task 1: no status or a valid one; no reason, null, a
\* blank one, a text
UpdateCands ==
  { Cand(JInt(1), JAbsent, status, reason) :
      status \in { JAbsent, JStr(TODO), JStr(DOING), JStr(BLOCKED), JStr(DONE) },
      reason \in { JAbsent, JNull, JStr(BLANK), JStr(QUOTA_TEXT) } }

UpdateResponses == { [k |-> "list", items |-> << c >>] : c \in UpdateCands }

InitUpdate ==
  /\ disk \in { _save_tasks_payload(1, 3, ts) : ts \in UpdateBacklogs }
  /\ resp \in UpdateResponses
  /\ hist = << >>
  /\ loop = NoLoop
  /\ apply = NoApply
  /\ repo = ReadyRepo
  /\ thr = NoThreads
  /\ clock = 1
  /\ pc = "idle"
  /\ mem = NoMem
  /\ outcome = "none"
  /\ op = "init"

SpecUpdate == InitUpdate /\ [][NextPlan]_vars

\* ------------------------------------------------------------------------
\* The base branch of a pass (runner.py lines 302-340 and 660-670)
\* ------------------------------------------------------------------------

\* branch names, as their parts between slashes
MAIN == << "main" >>
MASTER == << "master" >>
DEVELOP == << "develop" >>
RELEASE == << "release", "1" >>
BranchNames == { MAIN, MASTER, DEVELOP }

\* no branch: HEAD is detached or unborn; no ref: the remote has no HEAD ref
NoBranch == << >>
NoRef == << >>

\* refs/remotes/<remote>/<branch>
RemoteRef(branch) == << "refs", "remotes", "origin" >> \o branch

\* runner.py _detect_default_branch: ref is what git symbolic-ref prints, or
\* NoRef when the command fails
_detect_default_branch(ref) ==
  IF ref = NoRef THEN MAIN ELSE << ref[Len(ref)] >>

\* runner.py _git_current_branch
_git_current_branch(r) == r.current

\* runner.py _checkout_base lines 319-329: the branch to check out
EffectiveBase(r, base_branch) ==
  IF base_branch \in r.branches THEN base_branch
  ELSE IF MASTER \in r.branches THEN MASTER
  ELSE LET cur == IF r.head THEN _git_current_branch(r) ELSE NoBranch
       IN IF cur # NoBranch THEN cur ELSE base_branch

\* runner.py _checkout_base: the repository after it; the branch is checked
\* out, created by git checkout -B when it did not exist
_checkout_base(r, base_branch) ==
  LET effective == EffectiveBase(r, base_branch)
  IN [r EXCEPT !.branches = @ \cup { effective }, !.current = effective]

\* the repositories a pass may find after _ensure_git_initialized: with or
\* without a commit, on a branch or detached, with or without the remote and
\* its HEAD ref
BaseRepos ==
  { r \in [ git : { TRUE }, identity : { TRUE }, head : BOOLEAN,
            branches : SUBSET BranchNames,
            current : BranchNames \cup { NoBranch },
            remote : BOOLEAN,
            remote_head : { NoRef, RemoteRef(MAIN), RemoteRef(DEVELOP),
                            RemoteRef(RELEASE) } ] :
      /\ r.head => (r.current = NoBranch \/ r.current \in r.branches)
      /\ ~r.head => (r.branches = { } /\ r.current = NoBranch)
      /\ ~r.remote => r.remote_head = NoRef }

\* the locals of run_once that the base checkout reads and writes
BaseMem(base_branch, remote_ok, checked_out) ==
  [ base_branch |-> base_branch, configured |-> base_branch,
    remote_ok |-> remote_ok, checked_out |-> checked_out ]

InitBase ==
  /\ disk = NoFile
  /\ clock = 1
  /\ pc = "idle"
  /\ mem = NoMem
  /\ outcome = "none"
  /\ op = "init"
  /\ resp = NoTasksBlock
  /\ hist = << >>
  /\ loop = NoLoop
  /\ apply = NoApply
  /\ repo \in BaseRepos
  /\ thr = NoThreads

BaseFrame == UNCHANGED << disk, clock, outcome, resp, hist, loop, apply, thr >>

\* runner.py lines 592-638 and 660-661: the configuration is loaded, the
\* remote looked up, the working tree found clean
BaseCleanGit ==
  /\ pc = "idle"
  /\ op = "init"
  /\ \E base_branch \in { MAIN, DEVELOP } :
       mem' = BaseMem(base_branch, repo.remote, NoBranch)
  /\ pc' = "detect"
  /\ op' = "run"
  /\ UNCHANGED repo
  /\ BaseFrame

\* runner.py lines 663-666
BaseDetect ==
  /\ pc = "detect"
  /\ mem' = IF mem.remote_ok
            THEN [mem EXCEPT !.base_branch = _detect_default_branch(repo.remote_head)]
            ELSE mem
  /\ pc' = "checkout_base"
  /\ UNCHANGED << repo, op >>
  /\ BaseFrame

\* runner.py lines 668-670
BaseCheckout ==
  /\ pc = "checkout_base"
  /\ repo' = _checkout_base(repo, mem.base_branch)
  /\ mem' = [mem EXCEPT !.checked_out = repo'.current]
  /\ pc' = "create_branch"
  /\ UNCHANGED op
  /\ BaseFrame

NextBase ==
  \/ BaseCleanGit
  \/ BaseDetect
  \/ BaseCheckout

SpecBase == InitBase /\ [][NextBase]_vars

\* ------------------------------------------------------------------------
\* The runner on a backlog that holds a doing task
\* ------------------------------------------------------------------------

\* backlogs with a task in doing that no pass is running: left by an
\* interrupted pass, beside a todo task, a blocked task the classifier
\* resets, a done task; and as plan_from_brief writes it for a proposal with
\* two entries for task 1, the first with status doing
FoundBacklogs ==
  { << PlanTask1(DOING) >>,
    << PlanTask1(DOING), PlanTask2(TitleB, TODO) >>,
    << PlanTask1(DOING), [QuotaBlockedTask EXCEPT !.id = 2] >>,
    << PlanTask1(DOING), [PlanTask1(DONE) EXCEPT !.id = 2] >>,
    << PlanTask1(DOING), FreshTask1(TODO) >> }

InitFound ==
  /\ disk \in { _save_tasks_payload(1, 3, ts) : ts \in FoundBacklogs }
  /\ repo = ReadyRepo
  /\ thr = NoThreads
  /\ resp = NoTasksBlock
  /\ hist = << >>
  /\ loop = NoLoop
  /\ apply = NoApply
  /\ clock = 1
  /\ pc = "idle"
  /\ mem = NoMem
  /\ outcome = "none"
  /\ op = "init"

SpecFound == InitFound /\ [][NextPass]_vars

\* ------------------------------------------------------------------------
\* Properties
\* ------------------------------------------------------------------------

\* the task objects of a backlog document
DocTasks(doc) == IF doc.tasks.k = "list" THEN doc.tasks.items ELSE << >>

UniqueIds(items) ==
  \A i, j \in 1..Len(items) : items[i].id = items[j].id => i = j

TerminalStatuses == { REVIEW, DONE, SKIPPED }

\* every task of before that is review, done or skipped has the same status
\* at the same place of after
TerminalKept(before, after) ==
  \A i \in 1..Len(before) :
    (before[i].status.k = "str" /\ before[i].status.s \in TerminalStatuses)
      => (i <= Len(after) /\ after[i].status = before[i].status)

\* C1: in a backlog with unique ids, no step of a runner pass changes the
\* status of a task persisted as review, done or skipped
C1_TerminalStatusKept ==
  [][(op' = "run" /\ UniqueIds(DocTasks(disk)))
       => TerminalKept(DocTasks(disk), DocTasks(disk'))]_vars

\* C2: loading what was saved returns the version, the next_id and the tasks
\* of the well-formed backlog that was saved
C2_RoundTrip ==
  op = "load" =>
    /\ mem.version = hist[1].version
    /\ mem.next_id = hist[1].next_id
    /\ mem.tasks = hist[1].tasks

ValidStatus(v) == v.k = "str" /\ _norm(v.s) \in Statuses

\* C4: the k-th proposal entry, matched to an existing task whose status is
\* not review, changes that task's status only when the entry carries a valid
\* status that differs from the existing one
C4_StatusChangeNeedsValidStatus ==
  Len(hist) = 1 =>
    \A k \in 1..Len(generated_tasks(resp)) :
      \A i \in 1..Len(DocTasks(hist[1])) :
        LET cand == generated_tasks(resp)[k]
            old == DocTasks(hist[1])[i]
            out == DocTasks(disk)[k]
        IN (out.id = old.id /\ old.status # JStr(REVIEW) /\ out.status # old.status)
             => (ValidStatus(cand.status) /\ _norm(cand.status.s) # old.status.s)

\* the existing tasks whose normalized title is that of the entry
TitleMatches(existing, cand) ==
  { i \in 1..Len(existing) :
      cand.title.k = "str" /\ _norm(existing[i].title.s) = _norm(cand.title.s) }

\* C5: the k-th proposal entry, without id and without status, under the
\* normalized title of an existing task, is written with that task's id and
\* that task's status
C5_TitleMatchKeepsIdAndStatus ==
  Len(hist) = 1 =>
    \A k \in 1..Len(generated_tasks(resp)) :
      LET cand == generated_tasks(resp)[k]
          existing == DocTasks(hist[1])
          out == DocTasks(disk)[k]
      IN (cand.id.k \in { "absent", "null" } /\ cand.status.k = "absent"
          /\ TitleMatches(existing, cand) # {})
           => \E i \in TitleMatches(existing, cand) :
                out.id = existing[i].id /\ out.status = existing[i].status

\* two task objects equal in every field but updated_at
SameButUpdatedAt(a, b) == [a EXCEPT !.updated_at = b.updated_at] = b

\* every entry of the proposal carries a title that is not blank
AllTitled(cands) ==
  \A k \in 1..Len(cands) :
    cands[k].title.k = "str" /\ Strip(cands[k].title.s) # EMPTY

\* C6: the second pass of the same proposal, all of whose entries are titled,
\* writes the ids of the first pass, each task with the same fields but
\* updated_at, and the same next_id
C6_SecondPassIdempotent ==
  (Len(hist) = 2 /\ AllTitled(generated_tasks(resp))) =>
    LET first == DocTasks(hist[2])
        second == DocTasks(disk)
    IN /\ \A i \in 1..Len(first) : \E j \in 1..Len(second) :
            SameButUpdatedAt(first[i], second[j])
       /\ \A j \in 1..Len(second) : \E i \in 1..Len(first) :
            SameButUpdatedAt(first[i], second[j])
       /\ disk.next_id = hist[2].next_id

\* next_id of a saved document is above the id of each of its tasks
DocNextIdAbove(doc) ==
  /\ doc.next_id.k = "int"
  /\ \A i \in 1..Len(DocTasks(doc)) :
       DocTasks(doc)[i].id.k = "int" /\ DocTasks(doc)[i].id.n < doc.next_id.n

\* C7: next_id is above every task id in the payload _load_tasks_payload
\* returns and in the backlog every plan_from_brief run (normal and
\* parse-failure) and every add_tasks_from_brief run persists
C7_NextIdAboveIds ==
  /\ Loaded.ok =>
       \A i \in 1..Len(Loaded.tasks) : Loaded.tasks[i].id < Loaded.next_id
  /\ (op \in { "plan", "plan_failed", "add" } /\ outcome = "ok") => DocNextIdAbove(disk)

\* a plan run on the backlog whose stored next_id was stale gave a new task
\* the recomputed id
C7_Witness ==
  /\ op = "plan"
  /\ outcome = "ok"
  /\ \E i, j, k \in 1..Len(DocTasks(disk)) :
       /\ DocTasks(disk)[i].id = JInt(1)
       /\ DocTasks(disk)[j].id = JInt(2)
       /\ DocTasks(disk)[j].title = JStr(TitleB)
       /\ DocTasks(disk)[k].id = JInt(3)
  /\ disk.next_id = JInt(4)

\* C8: no two tasks of the persisted backlog share an id
C8_IdsUnique == UniqueIds(DocTasks(disk))

\* the list with the tasks at places a and b exchanged
Swap(tasks, a, b) ==
  [i \in 1..Len(tasks) |->
     IF i = a THEN tasks[b] ELSE IF i = b THEN tasks[a] ELSE tasks[i]]

\* the task _select_next_task returns, NoTask for None
Selected(tasks) ==
  IF _select_next_task(tasks) = 0 THEN NoTask ELSE tasks[_select_next_task(tasks)]

\* C9: _select_next_task returns a todo task of minimal (rank, id), returns
\* none exactly when no task is todo, and returns the same task when two
\* tasks of the list are exchanged
C9_SelectMinTodoAnyOrder ==
  LET tasks == Loaded.tasks
      sel == _select_next_task(tasks)
      todo == { i \in 1..Len(tasks) : tasks[i].status = TODO }
  IN /\ (sel = 0) <=> (todo = {})
     /\ sel # 0 =>
          /\ sel \in todo
          /\ \A j \in todo :
               ~KeyLess(prio_rank(tasks[j].priority), tasks[j].id,
                        prio_rank(tasks[sel].priority), tasks[sel].id)
     /\ \A a, b \in 1..Len(tasks) : Selected(Swap(tasks, a, b)) = Selected(tasks)

\* the task of m.t is in doc, blocked, with a reason of 1..ReasonLimit
\* characters that starts the error text, and without done_at
BlockedPersisted(doc, m) ==
  LET err == IF m.err # EMPTY THEN m.err ELSE UNKNOWN_ERROR
      hit == { i \in 1..Len(DocTasks(doc)) : DocTasks(doc)[i].id = JInt(m.t.id) }
  IN /\ hit # {}
     /\ \A i \in hit :
          /\ DocTasks(doc)[i].status = JStr(BLOCKED)
          /\ DocTasks(doc)[i].blocked_reason.k = "str"
          /\ DocTasks(doc)[i].blocked_reason.s # EMPTY
          /\ Len(DocTasks(doc)[i].blocked_reason.s) <= ReasonLimit
          /\ DocTasks(doc)[i].blocked_reason.s
               = Prefix(err, Len(DocTasks(doc)[i].blocked_reason.s))
          /\ DocTasks(doc)[i].done_at = JNull

\* C10: a pass that leaves the steps after the doing checkpoint otherwise
\* than by finalizing the task has raised, and has persisted the selected
\* task as blocked with a non-empty reason of at most 5000 characters taken
\* from the error text and without done_at
C10_RaiseBlocksTask ==
  [][(pc # "idle" /\ pc' = "idle" /\ outcome' \notin { "ok", "no_changes" })
       => (outcome' = "raised" /\ BlockedPersisted(disk', mem'))]_vars

\* a step has raised with an error text longer than the limit
C10_Witness == op = "run" /\ outcome = "raised" /\ Len(mem.err) > ReasonLimit

QUOTA == << "q","u","o","t","a" >>

\* the task's reason, lower-cased
ReasonLower(t) ==
  IF Truthy(t.blocked_reason) THEN Lower(PyStr(t.blocked_reason)) ELSE EMPTY

\* a run_once pass goes from its start through the classifier pass
ClassifierStep == pc = "idle" /\ op' = "run" /\ outcome' # "raised_early"

\* the task at place i as the classifier pass of the step left it: the
\* selected task before its doing checkpoint, or the task in the locals
Classified(i) ==
  IF outcome' = "running" /\ mem'.tasks[i].id = mem'.t.id THEN mem'.t
  ELSE mem'.tasks[i]

\* the classifier pass of the step reset the task at place i, in the locals
\* and in the backlog file
WasReset(i) ==
  /\ Classified(i).status = TODO
  /\ Classified(i).blocked_reason = JNull
  /\ DocTasks(disk')[i].status \in { JStr(TODO), JStr(DOING) }
  /\ DocTasks(disk')[i].blocked_reason = JNull

\* a blocked task t at place i, with lower-cased reason r that holds none of
\* the catalogue markers, is left as it was
UnrelatedKept(i, t, r) ==
  (t.status = BLOCKED /\ \A m \in transient_markers : ~Contains(r, m))
    => Classified(i) = t

\* a blocked task t at place i whose lower-cased reason r holds "quota" is
\* reset
QuotaReset(i, t, r) ==
  (t.status = BLOCKED /\ Contains(r, QUOTA)) => WasReset(i)

\* the same, but left as it was when r holds "llm.chat" and the text
\* provider module cannot be imported
QuotaResetUnlessChatMissing(i, t, r) ==
  (t.status = BLOCKED /\ Contains(r, QUOTA))
    => IF Contains(r, LLM_CHAT) /\ ~mem'.can_llm
         THEN Classified(i) = t
         ELSE WasReset(i)

\* C11: the classifier pass at the start of run_once resets every blocked
\* task whose reason contains "quota" in any letter case to todo with the
\* reason cleared, and leaves a blocked task without any marker as it was
C11_QuotaReset ==
  [][ClassifierStep =>
       \A i \in 1..Len(Loaded.tasks) :
         /\ QuotaReset(i, Loaded.tasks[i], ReasonLower(Loaded.tasks[i]))
         /\ UnrelatedKept(i, Loaded.tasks[i], ReasonLower(Loaded.tasks[i]))]_vars

\* C11 amended: the reset happens when the reason does not contain
\* "llm.chat" or the text provider module is importable; otherwise the task
\* is left as it was
C11_QuotaResetUnlessChatMissing ==
  [][ClassifierStep =>
       \A i \in 1..Len(Loaded.tasks) :
         /\ QuotaResetUnlessChatMissing(i, Loaded.tasks[i],
                                        ReasonLower(Loaded.tasks[i]))
         /\ UnrelatedKept(i, Loaded.tasks[i], ReasonLower(Loaded.tasks[i]))]_vars

\* a pass without the text provider has reset the task it then selected:
\* the reason was "Quota exceeded", the one marked text without "llm.chat"
C11_Witness ==
  /\ op = "run"
  /\ ~mem.can_llm
  /\ outcome = "running"
  /\ mem.unblocked > 0
  /\ mem.t.status = TODO
  /\ mem.t.blocked_reason = JNull
  /\ Truthy(mem.t.started_at)
  /\ \E i \in 1..Len(DocTasks(disk)) :
       DocTasks(disk)[i].id = JInt(mem.t.id) /\ DocTasks(disk)[i].blocked_reason = JNull

\* the provider calls apply_task has made
LlmCalls(a) == Len(CallsOf(a.log, "llm"))

\* the patch-application attempts: each call of _git_apply starts with a dry run
ApplyAttempts(a) == Len(CallsOf(a.log, "check"))

\* the git commands of apply_task that exited non-zero
GitFailures(a) ==
  Cardinality({ i \in 1..Len(a.log) :
                  a.log[i].cmd \in { "check", "apply" } /\ a.log[i].rc # 0 })

\* the first diff passed the dry run and was applied
FirstDiffApplied(a) ==
  /\ GitFailures(a) = 0
  /\ CallsOf(a.log, "apply") # << >>

\* C12: one invocation of apply_task calls the provider at most twice and
\* attempts the patch application at most twice; it calls the provider
\* exactly once when the first diff passes the dry run and applies; when the
\* repaired diff fails as well, it raises without another provider call
C12_AtMostOneRepair ==
  op = "apply_task" =>
    /\ LlmCalls(apply) <= 2
    /\ ApplyAttempts(apply) <= 2
    /\ FirstDiffApplied(apply) =>
         (pc = "idle" /\ outcome = "applied" /\ LlmCalls(apply) = 1)
    /\ GitFailures(apply) = 2 =>
         (pc = "idle" /\ outcome = "raised" /\ LlmCalls(apply) = 2)

\* the repaired diff failed too and apply_task raised
C12_Witness ==
  /\ op = "apply_task"
  /\ pc = "idle"
  /\ outcome = "raised"
  /\ GitFailures(apply) = 2
  /\ LlmCalls(apply) = 2
  /\ ApplyAttempts(apply) = 2

\* every task of the file that has the id of t is saved as done or review,
\* without a reason, and there is one
FinalPersisted(d, t) ==
  /\ \E i \in 1..Len(DocTasks(d)) : DocTasks(d)[i].id = JInt(t.id)
  /\ \A i \in 1..Len(DocTasks(d)) :
       DocTasks(d)[i].id = JInt(t.id) =>
         /\ DocTasks(d)[i].status \in { JStr(DONE), JStr(REVIEW) }
         /\ DocTasks(d)[i].blocked_reason = JNull

\* C13: when the commit step of a pass finds nothing staged, the pass ends
\* there without an error, the task saved as done or review; the push and
\* the PR creation, which come after the commit step, are not reached
C13_NothingStagedFinalizes ==
  [][(op = "run" /\ pc = "commit" /\ pc' # "commit" /\ outcome' # "raised"
        /\ ~mem'.committed)
       => /\ pc' = "idle"
          /\ outcome' = "no_changes"
          /\ FinalPersisted(disk', mem.t_doing)]_vars

\* a pass ended at the commit step with nothing staged, its task now done
C13_Witness ==
  /\ op = "run"
  /\ pc = "idle"
  /\ outcome = "no_changes"
  /\ ~mem.effective_create_pr
  /\ FinalPersisted(disk, mem.t_doing)
  /\ \E i \in 1..Len(DocTasks(disk)) :
       DocTasks(disk)[i].id = JInt(mem.t.id) /\ DocTasks(disk)[i].status = JStr(DONE)

\* each task object of the file has a non-empty blocked_reason exactly when
\* its status is blocked
ReasonIffBlocked(d) ==
  \A i \in 1..Len(DocTasks(d)) :
    DocTasks(d)[i].isdict =>
      (Truthy(DocTasks(d)[i].blocked_reason) <=> DocTasks(d)[i].status = JStr(BLOCKED))

\* C14: a backlog written by the runner, the reconciler or the append
\* variant over a backlog in which every task has a non-empty blocked_reason
\* exactly when it is blocked is such a backlog too
C14_ReasonIffBlocked ==
  [][ReasonIffBlocked(disk) => ReasonIffBlocked(disk')]_vars

\* each task object of the file has done_at set exactly when its status is
\* done
DoneAtIffDone(d) ==
  \A i \in 1..Len(DocTasks(d)) :
    DocTasks(d)[i].isdict =>
      (Truthy(DocTasks(d)[i].done_at) <=> DocTasks(d)[i].status = JStr(DONE))

\* C15: a backlog written by the runner, the reconciler or the append
\* variant over a backlog in which every task has done_at set exactly when
\* it is done is such a backlog too
C15_DoneAtIffDone ==
  [][DoneAtIffDone(disk) => DoneAtIffDone(disk')]_vars

\* the reason of t is the message of a verification command that failed
BlockedByCheck(t) ==
  /\ t.status = BLOCKED
  /\ Truthy(t.blocked_reason)
  /\ StartsWith(PyStr(t.blocked_reason), CMD_FAILED \o SHELL)

\* a task t at place i that a failed verification command blocked is left as
\* it was by the classifier pass of the step and is not the task it selects
CheckFailureKept(i, t) ==
  BlockedByCheck(t) =>
    /\ Classified(i) = t
    /\ outcome' \in { "running", "dry_run" } => mem'.t.id # t.id

\* C16: a task blocked by a verification command that exited non-zero is
\* never reset to todo by a later classifier pass nor selected by a later
\* pass, whatever output of the command its reason holds
C16_CheckFailureNotRetried ==
  [][ClassifierStep =>
       \A i \in 1..Len(Loaded.tasks) : CheckFailureKept(i, Loaded.tasks[i])]_vars

\* C17: run_forever called with max_tasks = N starts at most N passes,
\* however those passes end
C17_AtMostMaxTasksPasses ==
  (loop.phase # "off" /\ loop.max_tasks # JNull) => loop.started <= loop.max_tasks.n

\* run_once has returned or raised and run_forever takes it up
LoopReturns == loop.phase = "call" /\ loop'.phase # "call"

\* the last pass of the loop raised
LastRaised(l) ==
  l.results # << >> /\ l.results[Len(l.results)].error # JAbsent

\* the ceiling test at the top of the loop stops it
CeilingReached(l) == l.max_tasks # JNull /\ l.ran >= l.max_tasks.n

\* the places of the todo tasks after the classifier pass of the step
TodoAfter == { i \in 1..Len(mem'.tasks) : Classified(i).status = TODO }

\* the step selects a todo task of minimal (rank, id) when there is one, and
\* none when there is none
SelectsMinTodo ==
  /\ TodoAfter = { } => outcome' \in { "no_todo", "halted" }
  /\ TodoAfter # { } =>
       /\ outcome' \in { "running", "dry_run" }
       /\ mem'.t.status = TODO
       /\ \E i \in TodoAfter : Classified(i) = mem'.t
       /\ \A j \in TodoAfter :
            ~KeyLess(prio_rank(Classified(j).priority), Classified(j).id,
                     prio_rank(mem'.t.priority), mem'.t.id)

\* C18: when a pass of run_forever raises, the task it failed on is already
\* saved as blocked, the loop goes back to its top and from there, the
\* ceiling not being reached by that pass, calls run_once again; that next
\* pass selects the todo task of minimal (rank, id) if there is one
C18_ExceptionDoesNotStopLoop ==
  [][/\ (LoopReturns /\ PassRaised(outcome)) =>
          /\ loop'.phase = "top"
          /\ loop'.ran = loop.ran
          /\ outcome = "raised" => BlockedPersisted(disk, mem)
     /\ (loop.phase = "top" /\ LastRaised(loop) /\ loop' # loop) =>
          loop'.phase = "call"
     /\ (InPass /\ LastRaised(loop) /\ ClassifierStep) => SelectsMinTodo]_vars

\* after a pass that raised and blocked its task, the next pass of the loop
\* has selected another task
C18_Witness ==
  /\ loop.phase = "call"
  /\ LastRaised(loop)
  /\ loop.started = 2
  /\ op = "run"
  /\ outcome = "running"
  /\ \E i \in 1..Len(DocTasks(disk)) :
       /\ DocTasks(disk)[i].status = JStr(BLOCKED)
       /\ DocTasks(disk)[i].blocked_reason = JStr(BOOM)
       /\ DocTasks(disk)[i].id # JInt(mem.t.id)
  /\ \E i \in 1..Len(DocTasks(disk)) :
       DocTasks(disk)[i].status = JStr(DOING) /\ DocTasks(disk)[i].id = JInt(mem.t.id)

\* after the classifier pass of the step some task is blocked
BlockedAfter == \E i \in 1..Len(mem'.tasks) : Classified(i).status = BLOCKED

\* C19: a pass of run_forever that, after its classifier pass, finds a
\* blocked task and no todo task selects nothing, leaves the backlog file as
\* it was and returns the not-ok halt result, and run_forever then returns,
\* with a poll interval too; a pass that finds neither returns the ok
\* "nothing to do" result, after which run_forever returns when it has no
\* poll interval and otherwise sleeps, goes back to the top of the loop and,
\* the ceiling not being reached, calls run_once again
C19_HaltOnBlockedOnly ==
  [][/\ (InPass /\ ClassifierStep /\ TodoAfter = { }) =>
          /\ mem'.t = NoTask
          /\ disk' = disk
          /\ pc' = "idle"
          /\ outcome' = (IF BlockedAfter THEN "halted" ELSE "no_todo")
          /\ Result(outcome').ok = ~BlockedAfter
     /\ (LoopReturns /\ outcome = "halted") =>
          (loop'.phase = "stopped" /\ loop'.stop = "halted")
     /\ (LoopReturns /\ outcome = "no_todo") =>
          loop'.phase = (IF loop.poll_seconds = JNull THEN "stopped" ELSE "sleep")
     /\ (loop.phase = "sleep" /\ loop' # loop) => loop'.phase = "top"
     /\ (loop.phase = "top" /\ loop' # loop /\ ~CeilingReached(loop)) =>
          loop'.phase = "call"]_vars

\* with a poll interval, the loop has returned on the halt of a pass that
\* found only blocked tasks
C19_Witness ==
  /\ loop.phase = "stopped"
  /\ loop.stop = "halted"
  /\ loop.poll_seconds # JNull
  /\ outcome = "halted"
  /\ \E i \in 1..Len(DocTasks(disk)) : DocTasks(disk)[i].status = JStr(BLOCKED)
  /\ \A i \in 1..Len(DocTasks(disk)) : DocTasks(disk)[i].status # JStr(TODO)

\* the document is not JSON, or its top-level value is not an object, or its
\* "tasks" value is not an array, or an element of that array is not an object
Malformed(d) ==
  \/ d.kind \in { "notjson", "nondict" }
  \/ d.tasks.k \notin { "absent", "list" }
  \/ \E i \in 1..Len(d.tasks.items) : ~d.tasks.items[i].isdict

\* C20: loading a malformed document raises; no backlog is loaded from it
\* that a later save writes back
C20_MalformedLoadFails ==
  /\ (op = "load" /\ Malformed(hist[1])) => (outcome = "raised" /\ mem = NoMem)
  /\ op = "save" => ~Malformed(hist[1])

\* the places of doc whose task has the title of the synthetic task
FixPlanPlaces(doc) ==
  { i \in 1..Len(DocTasks(doc)) :
      _norm(PyStr(DocTasks(doc)[i].title)) = _norm(FIX_PLAN_OUTPUT) }

\* every task of before is at its place in after, with the same fields
KeptInPlace(before, after) ==
  /\ Len(before) <= Len(after)
  /\ \A i \in 1..Len(before) : after[i] = before[i]

\* after holds at most one task more than before, blocked with a reason
AtMostOneSynthetic(before, after) ==
  /\ Len(after) <= Len(before) + 1
  /\ \A i \in (Len(before) + 1)..Len(after) :
       /\ after[i].status = JStr(BLOCKED)
       /\ Truthy(after[i].blocked_reason)

\* C21: a replan whose tasks block is missing, unparsable or empty leaves
\* every task of the file with the same fields at the same place and appends
\* at most one task, blocked with a reason, next_id advancing by the number
\* of tasks appended; the file then holds exactly one task with the
\* synthetic title, and a failing replan that follows a failing replan
\* changes neither the tasks nor next_id
C21_FailedReplanKeepsBacklog ==
  [][op' = "plan_failed" =>
       /\ KeptInPlace(DocTasks(disk), DocTasks(disk'))
       /\ AtMostOneSynthetic(DocTasks(disk), DocTasks(disk'))
       /\ disk'.next_id.n = disk.next_id.n + Len(DocTasks(disk')) - Len(DocTasks(disk))
       /\ Cardinality(FixPlanPlaces(disk')) = 1
       /\ op = "plan_failed" =>
            (DocTasks(disk') = DocTasks(disk) /\ disk'.next_id = disk.next_id)]_vars

\* a step that is a whole run of add_tasks_from_brief
AddStep == pc = "idle" /\ op' = "add" /\ clock' = clock + 1

\* the tasks after place n of the file are new: todo, numbered from next_id
\* upwards, with a title that no task before them has after normalization
NewTasksAfter(n, next_id, tasks) ==
  \A i \in (n + 1)..Len(tasks) :
    /\ tasks[i].status = JStr(TODO)
    /\ tasks[i].id = JInt(next_id + i - n - 1)
    /\ \A j \in 1..(i - 1) :
         _norm(PyStr(tasks[j].title)) # _norm(PyStr(tasks[i].title))

\* C22: add_tasks_from_brief either raises or persists a backlog with at
\* least one new task (todo, id allocated from next_id, title equal after
\* normalization to no existing title); it never returns having added none
C22_AddPersistsOrFails ==
  [][AddStep =>
       \/ outcome' = "raised"
       \/ /\ Len(DocTasks(disk')) > Len(Loaded.tasks)
          /\ NewTasksAfter(Len(Loaded.tasks), Loaded.next_id, DocTasks(disk'))]_vars

\* C23: after add_tasks_from_brief every task of the file before the call
\* is at the same place with the same id, status and other fields, and the
\* tasks after them are new
C23_AddAppendsOnly ==
  [][AddStep =>
       /\ KeptInPlace(DocTasks(disk), DocTasks(disk'))
       /\ NewTasksAfter(Len(DocTasks(disk)), Loaded.next_id, DocTasks(disk'))]_vars

\* a step in which run_once returns the report of a dry run
DryRunStep == pc = "idle" /\ op' = "run" /\ outcome' = "dry_run"

\* C24: a pass with dry_run = true writes nothing to the backlog file,
\* creates no commit and changes nothing else of the repository; it reports
\* the task the selection gives
C24_DryRunWritesNothing ==
  [][DryRunStep =>
       /\ disk' = disk
       /\ repo' = repo
       /\ mem'.t = mem'.tasks[_select_next_task(mem'.tasks)]]_vars

\* the text _run_live gave as captured from the two streams, returned or
\* inside the CmdError
LiveGave(stdout, stderr) ==
  thr.result = RunLive(thr.check,
                 IF thr.rc # 0
                   THEN Raised(CmdErrorMsg(ShellCmd(CHECK_COMMAND), stdout, stderr))
                   ELSE Returned(thr.rc, stdout, stderr))

\* C25: when _run_live returns or raises, the stdout and stderr text it
\* gives holds every line the command wrote to each stream, in order, under
\* every interleaving of the readers and the caller
C25_LiveCapturesEveryLine ==
  (thr.main = "done" /\ thr.live) => LiveGave(Joined(thr.wout), Joined(thr.werr))

\* C26: for the same exit code, stdout, stderr and check flag, _run with
\* live = true ends as _run with live = false does: both raise CmdError with
\* the same message, or both return the same returncode, stdout and stderr
\* (the streaming run having captured all the command wrote)
C26_LiveAsCaptured ==
  (thr.main = "done" /\ thr.live /\ LiveGave(Joined(thr.wout), Joined(thr.werr))) =>
    thr.result = RunCaptured(thr.check, thr.rc, Joined(thr.wout), Joined(thr.werr))

\* C27: what apply_task returns or raises inside the _Heartbeat block
\* reaches run_once unchanged; the Event is set by the first step after the
\* call ends, never before; with the Event set no progress output is emitted
C27_HeartbeatKeepsOutcome ==
  /\ thr.main = "done" => thr.result = thr.pending
  /\ thr.stop <=> thr.main \in { "join", "done" }
  /\ thr.late = 0

\* the positions of run_once at which the next command changes the
\* repository or a remote
SideEffectPcs == { "checkout_base", "create_branch", "apply", "commit", "push", "create_pr" }

\* the file holds the task of the pass with status doing
DoingPersisted ==
  /\ mem.t_doing # NoTask
  /\ mem.t_doing.status = DOING
  /\ \E i \in 1..Len(DocTasks(disk)) : DocTasks(disk)[i] = to_dict(mem.t_doing)

\* C28: in a pass that selects a task, every step that changes the
\* repository or a remote (initialisation and initial commit, checkout,
\* branch creation, patch apply, commit, push, PR creation) is taken with
\* the selected task persisted as doing
C28_DoingBeforeSideEffects ==
  [][(op' = "run" /\ ((repo' # repo /\ outcome' = "running") \/ pc \in SideEffectPcs))
       => DoingPersisted]_vars

\* a step in which a verification command exits non-zero
CheckFails ==
  /\ pc = "checks"
  /\ outcome' = "raised"
  /\ StartsWith(mem'.err, CMD_FAILED \o ShellCmd(CheckCommand(mem.checks)))

\* the file holds the task of the pass blocked, its reason the head of the
\* CmdError message err, which names the command and holds its output
BlockedWithOutput(doc, t, err) ==
  \E i \in 1..Len(DocTasks(doc)) :
    /\ DocTasks(doc)[i].id = JInt(t.id)
    /\ DocTasks(doc)[i].status = JStr(BLOCKED)
    /\ DocTasks(doc)[i].blocked_reason = JStr(Prefix(err, ReasonLimit))
    /\ Len(DocTasks(doc)[i].blocked_reason.s) <= ReasonLimit
    /\ \E out \in CheckOutputs :
         err = CmdErrorMsg(ShellCmd(CheckCommand(mem.checks)), out, EMPTY)

\* C29: the verification commands run one after the other from the first
\* configured one, each only after the one before it exited zero; the first
\* that exits non-zero ends the pass, so that no later check, commit, push
\* or PR creation happens in it, with the task persisted as blocked and the
\* head of the captured output, bounded in length, as its reason
C29_FirstFailingCheckAborts ==
  [][/\ (pc = "apply" /\ pc' = "checks") => mem'.checks = mem.checks
     /\ (pc = "checks" /\ pc' = "checks") => mem'.checks = mem.checks - 1
     /\ (pc = "checks" /\ pc' = "commit") => (mem.checks = 1 /\ outcome' # "raised")
     /\ CheckFails =>
          /\ pc' = "idle"
          /\ ~mem'.committed
          /\ BlockedWithOutput(disk', mem.t, mem'.err)]_vars

\* the first of two verification commands failed with a long output: the
\* task is blocked and make test was not run
C29_Witness ==
  /\ op = "run"
  /\ outcome = "raised"
  /\ pc = "idle"
  /\ mem.checks = 2
  /\ mem.err = CmdErrorMsg(ShellCmd(LINT_COMMAND), LONG_ERR, EMPTY)
  /\ BlockedWithOutput(disk, mem.t, mem.err)
  /\ Len(mem.err) > ReasonLimit

\* a step in which a pass ends with success
SuccessStep ==
  /\ op = "run"
  /\ pc \in { "commit", "finalize" }
  /\ outcome' \in { "ok", "no_changes" }

\* the task t is in the file as the final copy of a pass finalized at now:
\* review when published and done otherwise, done_at set to now exactly
\* when done, no blocked_reason
FinalAsPublished(doc, t, published, now) ==
  /\ \E i \in 1..Len(DocTasks(doc)) : DocTasks(doc)[i].id = JInt(t.id)
  /\ \A i \in 1..Len(DocTasks(doc)) :
       DocTasks(doc)[i].id = JInt(t.id) =>
         /\ DocTasks(doc)[i].status = JStr(IF published THEN REVIEW ELSE DONE)
         /\ DocTasks(doc)[i].done_at = (IF published THEN JNull ELSE JStr(now))
         /\ DocTasks(doc)[i].blocked_reason = JNull

\* C30: a pass that succeeds persists its task as review exactly when
\* run_once was called with create_pr and the configured remote exists, as
\* done otherwise; done_at is the finalisation time exactly when the status
\* is done, and blocked_reason is cleared in both cases
C30_ReviewIffPublished ==
  [][SuccessStep =>
       FinalAsPublished(disk', mem.t, loop.create_pr /\ mem.remote_ok, _now_iso(clock))]_vars

\* a pass with create_pr and a remote succeeded after a push and a PR: its
\* task is in review, without done_at
C30_Witness ==
  /\ op = "run"
  /\ outcome = "ok"
  /\ pc = "idle"
  /\ loop.phase = "call"
  /\ loop.create_pr
  /\ mem.remote_ok
  /\ mem.committed
  /\ \E i \in 1..Len(DocTasks(disk)) :
       /\ DocTasks(disk)[i].id = JInt(mem.t.id)
       /\ DocTasks(disk)[i].status = JStr(REVIEW)
       /\ DocTasks(disk)[i].done_at = JNull
       /\ Truthy(DocTasks(disk)[i].started_at)

\* git reports the patch itself as invalid: the message e of the failed
\* _git_apply holds git's "corrupt patch"
CorruptClass(e) == Contains(Lower(e), CORRUPT_PATCH)

\* C31: apply_task calls the provider a second time only after a failure of
\* the invalid/corrupt-patch class; a first attempt that fails because the
\* response is empty, holds no diff, or holds a diff that does not match the
\* working tree ends apply_task with that error
C31_RepairOnlyOnCorruptPatch ==
  [][/\ (pc = "except" /\ pc' = "call_llm") => CorruptClass(apply.e)
     /\ (pc \in { "call_llm", "extract" } /\ apply.attempt = 1 /\ apply'.e # apply.e)
          => (pc' = "idle" /\ outcome' = "raised" /\ LlmCalls(apply') <= 1)]_vars

\* the call at place i of the log is a mutating apply
IsApply(log, i) == log[i].cmd = "apply"

\* the call before place i is a dry run of the same diff text that exited zero
DryRunPassedBefore(log, i) ==
  /\ i > 1
  /\ log[i - 1].cmd = "check"
  /\ log[i - 1].rc = 0
  /\ log[i - 1].text = log[i].text

\* C32: in every attempt of apply_task the mutating git apply runs only
\* right after the dry run of the same diff text exited zero; after a dry
\* run that failed the attempt raises and no git apply of it runs
C32_ApplyOnlyAfterDryRun ==
  op = "apply_task" =>
    /\ \A i \in 1..Len(apply.log) :
         IsApply(apply.log, i) => DryRunPassedBefore(apply.log, i)
    /\ \A i \in 1..Len(apply.log) :
         (apply.log[i].cmd = "check" /\ apply.log[i].rc # 0) =>
           /\ i < Len(apply.log) => apply.log[i + 1].cmd # "apply"
           /\ i = Len(apply.log) => pc \in { "except", "call_llm", "idle" }

\* the first diff failed its dry run and was not applied; the repaired diff
\* passed its dry run and was applied
C32_Witness ==
  /\ op = "apply_task"
  /\ outcome = "applied"
  /\ pc = "idle"
  /\ Len(CallsOf(apply.log, "check")) = 2
  /\ Len(CallsOf(apply.log, "apply")) = 1
  /\ CallsOf(apply.log, "check")[1].rc # 0
  /\ IsApply(apply.log, Len(apply.log))
  /\ DryRunPassedBefore(apply.log, Len(apply.log))

\* the text of apply_task's own import error, as the classifier reads it
MissingCapability(r) == Contains(r, Lower(Prefix(CANNOT_IMPORT, 37)))

\* C33: a task blocked by apply_task's "Cannot import tanuki_bot.core.llm.text"
\* error is reset to todo by the classifier pass only when the provider
\* module is usable at that pass; while it is not, the task stays blocked
\* with its reason
C33_ResetNeedsCapability ==
  [][ClassifierStep =>
       \A i \in 1..Len(Loaded.tasks) :
         (/\ Loaded.tasks[i].status = BLOCKED
          /\ MissingCapability(ReasonLower(Loaded.tasks[i]))
          /\ ~mem'.can_llm)
           => Classified(i) = Loaded.tasks[i]]_vars

\* the pass before raised on the task now loaded at place i, and left it
\* blocked with a reason the classifier takes for transient and that does
\* not name the chat capability
FailedTransient(i) ==
  /\ outcome = "raised"
  /\ Loaded.tasks[i].id = mem.t.id
  /\ Loaded.tasks[i].status = BLOCKED
  /\ _should_unblock(Loaded.tasks[i].blocked_reason)
  /\ ~Contains(ReasonLower(Loaded.tasks[i]), LLM_CHAT)

\* no todo task comes before the task at place i in the selection order
FirstInOrder(i) ==
  \A j \in TodoAfter :
    ~KeyLess(prio_rank(Classified(j).priority), Classified(j).id,
             prio_rank(Classified(i).priority), Classified(i).id)

\* C34: the classifier keeps no count of retries: in run_forever, whatever
\* the number of passes that raised before, the pass after one that raised
\* on a task with a transient reason resets that task from blocked to todo
\* and, no other todo task coming before it, selects it again
C34_RetriedWithoutCeiling ==
  [][(InPass /\ LastRaised(loop) /\ ClassifierStep) =>
       \A i \in 1..Len(Loaded.tasks) :
         FailedTransient(i) =>
           /\ WasReset(i)
           /\ FirstInOrder(i) =>
                (outcome' \in { "running", "dry_run" } /\ mem'.t.id = Loaded.tasks[i].id)]_vars

\* the third pass of the loop runs the task that the two passes before it
\* failed on with the quota text: it has been reset twice, and no other task
\* has ever been started
C34_Witness ==
  /\ loop.phase = "call"
  /\ loop.started = MaxClock
  /\ Len(loop.results) = MaxClock - 1
  /\ \A k \in 1..Len(loop.results) : loop.results[k].error = JStr(QUOTA_TEXT)
  /\ op = "run"
  /\ outcome = "running"
  /\ mem.unblocked > 0
  /\ mem.t.blocked_reason = JNull
  /\ Len(DocTasks(disk)) > 1
  /\ \A i \in 1..Len(DocTasks(disk)) :
       DocTasks(disk)[i].id # JInt(mem.t.id) =>
         (DocTasks(disk)[i].status = JStr(TODO) /\ DocTasks(disk)[i].started_at = JNull)

\* a reason that is given: a text that is not blank
ReasonGiven(v) == v.k = "str" /\ Strip(v.s) # EMPTY

\* the reason of a task that enters blocked: the proposal's, else the
\* previous one, else the default text
ReasonOnBlock(cand, od) ==
  IF ReasonGiven(cand.blocked_reason) THEN JStr(Strip(cand.blocked_reason.s))
  ELSE IF ReasonGiven(od.blocked_reason) THEN JStr(Strip(od.blocked_reason.s))
  ELSE JStr(BLOCKED_DEFAULT)

\* started_at set if it was unset
StartedSet(od, now) == IF Truthy(od.started_at) THEN od.started_at ELSE now

\* od is the matched task as loaded, out the task written for the entry cand
UpdateRule(od, cand, out) ==
  LET now == out.updated_at
      changed == out.status # od.status
  IN /\ (changed /\ out.status = JStr(DOING)) =>
          out.started_at = StartedSet(od, now)
     /\ (changed /\ out.status = JStr(DONE)) =>
          /\ out.done_at = now
          /\ out.started_at = StartedSet(od, now)
          /\ out.blocked_reason = JNull
     /\ (changed /\ out.status = JStr(BLOCKED)) =>
          /\ ReasonGiven(out.blocked_reason)
          /\ out.blocked_reason = ReasonOnBlock(cand, od)
     /\ (changed /\ out.status = JStr(TODO)) => out.blocked_reason = JNull
     /\ ~changed =>
          /\ out.started_at = od.started_at
          /\ out.done_at = od.done_at
          /\ out.blocked_reason = od.blocked_reason

\* the backlog that the last plan run loaded
LoadedBefore == _load_tasks_payload(hist[Len(hist)], clock - 1).tasks

\* C35: on a status change of a matched task in plan_from_brief, entering
\* doing sets started_at if it was unset; entering done sets done_at,
\* backfills started_at and clears blocked_reason; entering blocked leaves a
\* non-empty blocked_reason (the proposal's, else the previous one, else the
\* default); entering todo clears blocked_reason; without a status change
\* started_at, done_at and blocked_reason are kept
C35_UpdateTimestampsAndReason ==
  hist # << >> =>
    \A k \in 1..Len(generated_tasks(resp)) :
      \A i \in 1..Len(LoadedBefore) :
        DocTasks(disk)[k].id = JInt(LoadedBefore[i].id) =>
          UpdateRule(to_dict(LoadedBefore[i]), generated_tasks(resp)[k],
                     DocTasks(disk)[k])

\* the remote default branch as detected: none without the remote or without
\* its HEAD ref
DetectedDefault(r) ==
  IF r.remote /\ r.remote_head # NoRef
  THEN SubSeq(r.remote_head, 4, Len(r.remote_head))
  ELSE NoBranch

\* the first available candidate in the order: configured base branch,
\* detected remote default branch, local master, current branch, freshly
\* created base branch
FirstAvailable(r, configured) ==
  IF configured \in r.branches THEN configured
  ELSE IF DetectedDefault(r) # NoBranch /\ DetectedDefault(r) \in r.branches
    THEN DetectedDefault(r)
  ELSE IF MASTER \in r.branches THEN MASTER
  ELSE IF r.head /\ r.current # NoBranch THEN r.current
  ELSE configured

\* C36: the base branch that a pass checks out is the first available of the
\* configured base branch, the detected remote default branch, the local
\* master, the current branch and the freshly created base branch
C36_BaseIsFirstAvailable ==
  [][pc = "checkout_base" =>
       mem'.checked_out = FirstAvailable(repo, mem.configured)]_vars

\* the places of the tasks that a backlog file holds in doing
DoingPlaces(doc) ==
  { i \in 1..Len(DocTasks(doc)) : DocTasks(doc)[i].status = JStr(DOING) }

\* a pass that has passed its doing checkpoint returns or raises
PassEnds == op = "run" /\ pc # "idle" /\ pc' = "idle"

\* a pass selects a task and saves its doing checkpoint
PassCheckpoints == pc = "idle" /\ op' = "run" /\ outcome' = "running"

\* the backlog that the pass loads holds no task in doing
NoDoingLoaded == \A i \in 1..Len(Loaded.tasks) : Loaded.tasks[i].status # DOING

\* C37: when a pass that selected a task returns or raises, that task is
\* persisted as review, done or blocked; a pass that starts from a backlog
\* without a doing task persists at most one task as doing, and none when
\* it ends
C37_NoTaskLeftDoing ==
  [][/\ PassEnds =>
          /\ \E i \in 1..Len(DocTasks(disk')) : DocTasks(disk')[i].id = JInt(mem.t.id)
          /\ \A i \in 1..Len(DocTasks(disk')) :
               DocTasks(disk')[i].id = JInt(mem.t.id) =>
                 DocTasks(disk')[i].status \in { JStr(REVIEW), JStr(DONE), JStr(BLOCKED) }
          /\ DoingPlaces(disk') \subseteq DoingPlaces(disk) \ { i \in DoingPlaces(disk) : DocTasks(disk)[i].id = JInt(mem.t.id) }
     /\ (PassCheckpoints /\ NoDoingLoaded) => Cardinality(DoingPlaces(disk')) <= 1]_vars

\* the classifier pass may have reset the loaded task t: it was blocked, and
\* d is t as todo with the reason cleared and a new updated_at
ResetOf(t, d) ==
  /\ t.status = BLOCKED
  /\ \E now \in { _now_iso(c) : c \in 1..MaxClock } :
       d = to_dict([t EXCEPT !.status = TODO, !.blocked_reason = JNull,
                             !.updated_at = now])

\* the file after the step holds the version and next_id and as many tasks
\* as before, in places 1..n
SameShape(version, next_id, n) ==
  /\ disk'.version = version
  /\ disk'.next_id = next_id
  /\ Len(DocTasks(disk')) = n

\* C38: a runner pass changes only the selected task and the tasks reset by
\* the classifier: each save of the pass leaves every other task as it was
\* loaded, in its place, and writes version and next_id back unchanged
C38_PassChangesOnlyItsTask ==
  [][/\ (pc = "idle" /\ op' = "run" /\ disk' # disk) =>
          /\ SameShape(JInt(Loaded.version), JInt(Loaded.next_id), Len(Loaded.tasks))
          /\ \E s \in 1..Len(Loaded.tasks) :
               \A i \in 1..Len(Loaded.tasks) :
                 \/ DocTasks(disk')[i] = to_dict(Loaded.tasks[i])
                 \/ ResetOf(Loaded.tasks[i], DocTasks(disk')[i])
                 \/ i = s /\ outcome' = "running" /\ DocTasks(disk')[i].id = JInt(mem'.t.id)
     /\ PassEnds =>
          /\ SameShape(disk.version, disk.next_id, Len(DocTasks(disk)))
          /\ \E s \in 1..Len(DocTasks(disk)) :
               \A i \in 1..Len(DocTasks(disk)) :
                 \/ DocTasks(disk')[i] = DocTasks(disk)[i]
                 \/ i = s /\ DocTasks(disk')[i].id = JInt(mem.t.id)]_vars

\* a run_once pass starts and gets past _ensure_git_initialized
PassStarts == pc = "idle" /\ op' = "run" /\ outcome' # "raised_early"

\* the file holds a doing task at place i that is not the checkpoint copy of
\* the running pass
FoundDoing(i) ==
  /\ DocTasks(disk)[i].status = JStr(DOING)
  /\ (pc # "idle" => DocTasks(disk)[i] # to_dict(mem.t_doing))

\* every task of the file is doing, done or skipped, and one is doing
OnlyDoingUnfinished ==
  /\ DoingPlaces(disk) # { }
  /\ \A i \in 1..Len(DocTasks(disk)) :
       DocTasks(disk)[i].status \in { JStr(DOING), JStr(DONE), JStr(SKIPPED) }

\* C39: a task that a pass finds in doing is not selected, not reset by the
\* classifier and not modified by any save of the pass, and a backlog whose
\* only unfinished tasks are doing gives the "no todo tasks" result
C39_FoundDoingIsLeftAlone ==
  [][/\ (PassStarts \/ PassEnds) =>
          \A i \in 1..Len(DocTasks(disk)) :
            FoundDoing(i) =>
              /\ i <= Len(DocTasks(disk'))
              /\ DocTasks(disk')[i] = DocTasks(disk)[i]
     /\ (PassStarts /\ outcome' \in { "running", "dry_run" }) =>
          \A i \in 1..Len(Loaded.tasks) :
            Loaded.tasks[i].status = DOING => Loaded.tasks[i] # mem'.t
     /\ (PassStarts /\ OnlyDoingUnfinished) =>
          (outcome' = "no_todo" /\ disk' = disk)]_vars

\* the file after the step holds the task of the pass as review or done
FinalPersistedNext ==
  \E i \in 1..Len(DocTasks(disk')) :
    /\ DocTasks(disk')[i].id = JInt(mem.t.id)
    /\ DocTasks(disk')[i].status \in { JStr(REVIEW), JStr(DONE) }

\* C40: in a pass the push is reached only from a commit step that created
\* a commit, after every configured check exited zero; the PR creation is
\* reached only from a push that succeeded; the task is persisted as review
\* or done only by the final save, which is reached only from the last
\* publication step attempted, or by a commit step that found nothing staged
C40_PublicationFollowsVerification ==
  [][/\ (pc' = "push" /\ pc # "push") =>
          (pc = "commit" /\ mem'.committed /\ mem.checks = 0 /\ mem.remote_ok)
     /\ (pc' = "create_pr" /\ pc # "create_pr") =>
          (pc = "push" /\ mem.committed /\ mem.effective_create_pr /\ outcome' = outcome)
     /\ (pc' = "finalize" /\ pc # "finalize") =>
          \/ pc = "commit" /\ mem'.committed /\ ~mem.remote_ok /\ mem.checks = 0
          \/ pc = "push" /\ ~mem.effective_create_pr
          \/ pc = "create_pr"
     /\ (op = "run" /\ pc # "idle" /\ disk' # disk /\ FinalPersistedNext) =>
          \/ pc = "finalize"
          \/ pc = "commit" /\ ~mem'.committed /\ mem.checks = 0]_vars

\* the PR is about to be opened: the checks have passed, the commit was
\* created and the push has returned, and the task is still persisted as doing
C40_Witness ==
  /\ op = "run"
  /\ pc = "create_pr"
  /\ mem.committed
  /\ mem.remote_ok
  /\ mem.effective_create_pr
  /\ mem.checks = 0
  /\ DoingPersisted

====
